---- MODULE Spec2Model ----
(***************************************************************************)
(* OTP authentication, signed session tokens and delegated consent access  *)
(* of the two server entry points:                                          *)
(*   src/api/app.py         the token server (JWT sessions, blacklist)      *)
(*   src/healthcare_app.py  the healthcare app (cookie sessions, consent)   *)
(*                                                                          *)
(* Python dicts are functions with a dynamic DOMAIN; d.get(k) is a test of  *)
(* k \in DOMAIN d.  Time is in seconds; the clock advances in steps of one  *)
(* validity period, so that "at the expiry instant" and "past it" occur.    *)
(***************************************************************************)
EXTENDS Integers, FiniteSets, Sequences, TLC

VARIABLES
    scenario,            \* which server process (and which of its OTP engines) runs
    now,                 \* the wall clock: time.time() / datetime.utcnow()
    USE_REDIS,           \* api/app.py: storage backend, fixed at start-up
    r,                   \* api/app.py: the Redis keyspace (key -> value, expireat)
    _otp_store,          \* api/app.py: in-process OTP dict
    _session_blacklist,  \* api/app.py: in-process blacklist dict, jti -> expires_at
    issued,              \* api/app.py: tokens minted so far (held by clients)
    USERS,               \* healthcare_app.py: demo accounts per user type
    healthcare_data,     \* healthcare_app.py: employee and patient records
    otp_store,           \* healthcare_app.py: employee login OTPs, identifier -> record
    patient_otp_store,   \* healthcare_app.py: consent OTPs, phone -> record
    patient_login_otp_store, \* healthcare_app.py: patient login OTPs
    heap,                \* healthcare_app.py: the OTP record objects the stores refer to
    session,             \* healthcare_app.py: the Flask session of each client
    threads,             \* request handlers in flight (stepwise specifications only)
    providers,           \* agents: the provider records, each with its qa_assessment
    resp,                \* the request served by the last step and its response
    history              \* facts about past responses (consumed OTPs, revoked tokens)

apiVars == <<USE_REDIS, r, _otp_store, _session_blacklist, issued>>
hcVars == <<USERS, healthcare_data, otp_store, patient_otp_store,
            patient_login_otp_store, heap, session>>
vars == <<scenario, now, apiVars, hcVars, threads, providers, resp, history>>

(***************************************************************************)
(* Bounds of the model.                                                     *)
(***************************************************************************)
MaxTicks == 2            \* the clock stops after this many ticks
MaxTokens == 2           \* at most this many session tokens are minted
ConsentTicks == 1        \* the clock of SpecConsent stops after this many ticks

(***************************************************************************)
(* Dict helpers.                                                            *)
(***************************************************************************)
EmptyDict == [k \in {} |-> {}]
Put(d, k, v) == [x \in DOMAIN d \cup {k} |-> IF x = k THEN v ELSE d[x]]
Pop(d, k) == [x \in DOMAIN d \ {k} |-> d[x]]

\* str(n) and int(s) on the integers Redis stores as strings
ToStr(n) == <<"str", n>>
ToInt(s) == s[2]

\* str.strip() on the request inputs used here
Strip(s) == IF s = " 483920 " THEN "483920" ELSE s

NoToken == [none |-> TRUE]
Response(op, c, id, otp, tok, status, error, data) ==
    [op |-> op, c |-> c, id |-> id, otp |-> otp, tok |-> tok,
     status |-> status, error |-> error, data |-> data]

\* no request was served by the last step
Idle == Response("idle", "-", "", "", NoToken, 0, "", {})

(***************************************************************************)
(* History of responses: an OTP is consumed by a successful verification    *)
(* until the identifier is issued a new one; a token is revoked by a        *)
(* successful logout; a session is granted a patient until the grant is     *)
(* replaced, revoked, or dropped with the session.  An OTP is consumed      *)
(* twice when a verification succeeds on an identifier whose OTP is already *)
(* consumed.  A session has surrendered its access once it called           *)
(* revoke-patient-access, until it verifies consent again or is dropped.    *)
(* In the scenarios that record them: the secret a request delivered, the   *)
(* secret or the subject a later request overwrote, the candidates refused  *)
(* and their number, and whether the last request replaced a record that    *)
(* had used up its attempts; the session and user that requested a consent OTP and  *)
(* the user that obtained a grant.                                          *)
(***************************************************************************)
VerifyOps == {"verify_otp", "verify-otp", "verify-patient-login-otp", "verify-patient-otp"}
RequestOps == {"request_otp", "request-otp", "request-patient-login-otp",
               "request-patient-otp"}
VerifyOf(rop) ==
    CASE rop = "request_otp" -> "verify_otp"
      [] rop = "request-otp" -> "verify-otp"
      [] rop = "request-patient-login-otp" -> "verify-patient-login-otp"
      [] rop = "request-patient-otp" -> "verify-patient-otp"

GrantFacts ==
    {"granted", "passed-over", "replaced", "expired", "surrendered", "surrendered-again",
     "grantee"}

\* the facts a response makes obsolete
TrackDrop(f) ==
    \/ /\ resp'.op \in RequestOps /\ resp'.status = 200
       /\ f[1] \in {"consumed", "ceiling", "twice", "sent", "superseded", "refused", "wrong",
                    "reset"}
       /\ f[2] = VerifyOf(resp'.op) /\ f[3] = resp'.id
    \/ /\ resp'.op \in VerifyOps /\ resp'.error = "invalid otp"
       /\ f[1] = "wrong" /\ f[2] = resp'.op /\ f[3] = resp'.id
    \/ /\ resp'.op \in {"verify-patient-otp", "revoke-patient-access", "logout"}
       /\ resp'.status \in {200, 302}
       /\ f[1] \in GrantFacts /\ f[2] = resp'.c
    \/ /\ \/ resp'.op = "request-patient-otp" /\ resp'.status = 200
          \/ /\ resp'.op = "verify-patient-otp"
             /\ resp'.status = 200 \/ resp'.error \in {"otp expired", "too many attempts"}
       /\ f[1] = "overwrote" /\ f[2] = resp'.id
    \/ /\ resp'.op = "request-patient-otp" /\ resp'.status = 200
       /\ f[1] = "requested-by" /\ f[2] = resp'.id

\* MAX_OTP_ATTEMPTS of src/healthcare_app.py
MAX_OTP_ATTEMPTS == 5

\* the scenarios in which reissued secrets and refused candidates are recorded,
\* and the wrong candidates a record was compared with are counted, up to one
\* past the ceiling
AuditScenarios ==
    {"api_audit", "employee_login_audit", "patient_login_audit", "consent_audit"}

\* the identifier has a record in the store of the engine
Pending(rop, id) ==
    CASE rop = "request_otp" ->
           <<"otp", id>> \in DOMAIN (IF USE_REDIS THEN r ELSE _otp_store)
      [] rop = "request-otp" -> id \in DOMAIN otp_store
      [] rop = "request-patient-login-otp" -> id \in DOMAIN patient_login_otp_store
      [] rop = "request-patient-otp" -> id \in DOMAIN patient_otp_store

AuditAdd ==
    IF scenario \notin AuditScenarios THEN {}
    ELSE IF resp'.op \in RequestOps /\ resp'.status = 200
    THEN {<<"sent", VerifyOf(resp'.op), resp'.id, resp'.otp>>}
           \cup {<<"superseded", VerifyOf(resp'.op), resp'.id, f[4]>> : f \in
                    {g \in history : /\ g[1] = "sent" /\ g[2] = VerifyOf(resp'.op)
                                     /\ g[3] = resp'.id /\ g[4] # resp'.otp
                                     /\ Pending(resp'.op, resp'.id)}}
           \cup {<<"reset", VerifyOf(resp'.op), resp'.id>> : st \in
                    {x \in {otp_store, patient_login_otp_store, patient_otp_store} :
                        /\ resp'.op # "request_otp"
                        /\ Pending(resp'.op, resp'.id)
                        /\ resp'.id \in DOMAIN x
                        /\ heap[x[resp'.id]].attempts >= MAX_OTP_ATTEMPTS}}
    ELSE IF resp'.op \in VerifyOps /\ resp'.error = "invalid otp"
    THEN {<<"refused", resp'.op, resp'.id, Strip(resp'.otp)>>}
           \cup {<<"wrong", resp'.op, resp'.id, n>> : n \in
                    {m \in 1..(MAX_OTP_ATTEMPTS + 1) :
                        \/ m = 1 /\ ~\E k \in 1..(MAX_OTP_ATTEMPTS + 1) :
                                      <<"wrong", resp'.op, resp'.id, k>> \in history
                        \/ <<"wrong", resp'.op, resp'.id, m - 1>> \in history
                        \/ /\ m = MAX_OTP_ATTEMPTS + 1
                           /\ <<"wrong", resp'.op, resp'.id, m>> \in history}}
    ELSE {}

\* the facts a response establishes
TrackAdd ==
    AuditAdd \cup
    IF resp'.op \in VerifyOps /\ resp'.status = 200
    THEN {<<"consumed", resp'.op, resp'.id, Strip(resp'.otp)>>}
           \cup {<<"twice", resp'.op, resp'.id>> : f \in
                    {g \in history : g[1] = "consumed" /\ g[2] = resp'.op /\ g[3] = resp'.id}}
           \cup (IF resp'.op = "verify-patient-otp"
                 THEN {<<"granted", resp'.c, subject>> : subject \in resp'.data}
                        \cup {<<"passed-over", resp'.c, g[3]>> : g \in
                                 {f \in history : f[1] = "overwrote" /\ f[2] = resp'.id}}
                        \cup (IF "patient_access" \in DOMAIN session[resp'.c]
                                   /\ session[resp'.c]["patient_access"].patient_id
                                         \notin resp'.data
                              THEN {<<"replaced", resp'.c,
                                      session[resp'.c]["patient_access"].patient_id>>}
                              ELSE {})
                        \cup (IF scenario = "operators"
                              THEN {<<"grantee", resp'.c, session[resp'.c]["username"]>>}
                              ELSE {})
                 ELSE {})
    ELSE IF resp'.op \in VerifyOps /\ resp'.error = "too many attempts"
    THEN {<<"ceiling", resp'.op, resp'.id>>}
    ELSE IF resp'.op = "logout" /\ resp'.status = 200 /\ scenario = "api"
    THEN {<<"revoked", resp'.tok.payload.jti>>}
    ELSE IF resp'.op = "get-patient" /\ resp'.error = "access_expired"
    THEN {<<"expired", resp'.c>>}
    ELSE IF resp'.op = "request-patient-otp" /\ resp'.status = 200
                 /\ scenario = "consent_requests"
    THEN {<<"overwrote", resp'.id, heap[patient_otp_store[phone]].patient_id>> : phone \in
             {k \in DOMAIN patient_otp_store :
                 k = resp'.id /\ heap[patient_otp_store[k]].patient_id \notin resp'.data}}
    ELSE IF resp'.op = "request-patient-otp" /\ resp'.status = 200
                 /\ scenario = "operators"
    THEN {<<"requested-by", resp'.id, resp'.c, session[resp'.c]["username"]>>}
    ELSE IF resp'.op = "revoke-patient-access" /\ resp'.status = 200
    THEN {<<"surrendered", resp'.c>>}
           \cup {<<"surrendered-again", resp'.c>> : f \in
                    {g \in history : g = <<"surrendered", resp'.c>>}}
    ELSE {}

Track == history' = {f \in history : ~TrackDrop(f)} \cup TrackAdd

(***************************************************************************)
(* src/api/app.py: configuration and inputs.                                *)
(***************************************************************************)
JWT_SECRET == "replace_this_with_strong_secret"
OTP_VALIDITY_SECONDS == 120
SESSION_EXPIRY_SECONDS == 120

Doctors == {"dr_rao", "dr_sen"}
OtpCodes == {"483920", "117305"}       \* 6 decimal digits
OtpInputs == OtpCodes \cup {" 483920 ", ""}
Salts == {"a3f1", "9c0e"}              \* secrets.token_hex(16)
PATIENT_DB == {"ramesh"}
AttackerKey == "guessed_secret"

now_ts == now

\* HMAC-SHA256 keyed by the salt: injective in (salt, otp)
hash_otp(otp, salt) == <<"hmac", salt, otp>>

\* redis keys that are still alive at time t (EXPIREAT: gone from t >= expireat)
RedisAt(store, t) == [k \in {x \in DOMAIN store : t < store[x].expireat} |-> store[k]]

(***************************************************************************)
(* store_otp / get_otp_record / remove_otp                                  *)
(***************************************************************************)
store_otp_redis(doctor_id, otp, salt, ttl) ==
    Put(r, <<"otp", doctor_id>>,
        [value |-> [h |-> hash_otp(otp, salt), salt |-> salt,
                    expires_at |-> ToStr(now_ts + ttl)],
         expireat |-> now_ts + ttl])

\* _otp_store.setdefault(key, payload): a pending record is kept
store_otp_dict_setdefault(doctor_id, otp, salt, ttl) ==
    IF <<"otp", doctor_id>> \in DOMAIN _otp_store THEN _otp_store
    ELSE Put(_otp_store, <<"otp", doctor_id>>,
             [h |-> hash_otp(otp, salt), salt |-> salt, expires_at |-> now_ts + ttl])

store_otp_dict(doctor_id, otp, salt, ttl) ==
    Put(_otp_store, <<"otp", doctor_id>>,
        [h |-> hash_otp(otp, salt), salt |-> salt, expires_at |-> now_ts + ttl])

has_otp_record(doctor_id) ==
    IF USE_REDIS THEN <<"otp", doctor_id>> \in DOMAIN r
    ELSE <<"otp", doctor_id>> \in DOMAIN _otp_store

get_otp_record(doctor_id) ==
    IF USE_REDIS
    THEN LET data == r[<<"otp", doctor_id>>].value
         IN  [data EXCEPT !.expires_at = ToInt(data.expires_at)]
    ELSE _otp_store[<<"otp", doctor_id>>]

remove_otp_redis(doctor_id) == Pop(r, <<"otp", doctor_id>>)
remove_otp_dict(doctor_id) == Pop(_otp_store, <<"otp", doctor_id>>)

(***************************************************************************)
(* Session tokens: HS256-signed claim sets.                                 *)
(***************************************************************************)
Sign(payload, key) == <<"hs256", key, payload>>

\* a token whose subject is not the identifier that was verified
create_session_token_first_doctor(doctor_id, expiry_seconds) ==
    LET jti == <<"jti", Cardinality(issued) + 1>>
        payload == [sub |-> "dr_rao", exp |-> now + expiry_seconds, iat |-> now, jti |-> jti]
    IN  [payload |-> payload, sig |-> Sign(payload, JWT_SECRET)]

create_session_token(doctor_id, expiry_seconds) ==
    LET jti == <<"jti", Cardinality(issued) + 1>>
        payload == [sub |-> doctor_id, exp |-> now + expiry_seconds, iat |-> now, jti |-> jti]
    IN  [payload |-> payload, sig |-> Sign(payload, JWT_SECRET)]

\* tokens a client can present: the minted ones, a minted one with its expiry
\* pushed out (signature kept), and a claim set signed with another key
Tampered(t) ==
    [payload |-> [t.payload EXCEPT !.exp = t.payload.exp + SESSION_EXPIRY_SECONDS],
     sig |-> t.sig]
Forged(t) == [payload |-> t.payload, sig |-> Sign(t.payload, AttackerKey)]
Presentable == issued \cup {Tampered(t) : t \in issued} \cup {Forged(t) : t \in issued}

Headers == {[kind |-> "missing", token |-> NoToken], [kind |-> "basic", token |-> NoToken]}
               \cup {[kind |-> "bearer", token |-> t] : t \in Presentable}

blacklist_session_redis(jti, expires_at_ts) ==
    Put(r, <<"black", jti>>, [value |-> "1", expireat |-> now_ts + (expires_at_ts - now_ts)])

\* an entry that lives a whole session from the logout on
blacklist_session_dict_from_now(d, jti, expires_at_ts) ==
    Put(d, jti, now_ts + SESSION_EXPIRY_SECONDS)
blacklist_session_dict(d, jti, expires_at_ts) == Put(d, jti, expires_at_ts)

\* a blacklist that is never consulted
is_blacklisted_never(jti) == FALSE

\* is_blacklisted: the answer, and the in-process dict after the lazy removal
is_blacklisted(jti) ==
    IF USE_REDIS THEN <<"black", jti>> \in DOMAIN r
    ELSE /\ jti \in DOMAIN _session_blacklist
         /\ _session_blacklist[jti] # 0
         /\ ~(now_ts >= _session_blacklist[jti])

is_blacklisted_dict_after(jti) ==
    IF /\ jti \in DOMAIN _session_blacklist
       /\ _session_blacklist[jti] # 0
       /\ now_ts >= _session_blacklist[jti]
    THEN Pop(_session_blacklist, jti)
    ELSE _session_blacklist

\* a decode that verifies the signature and not the exp claim
jwt_decode_verify_exp_off(token) ==
    IF token.sig # Sign(token.payload, JWT_SECRET) THEN "invalid token" ELSE "ok"

\* jwt.decode: signature first, then the exp claim
jwt_decode(token) ==
    IF token.sig # Sign(token.payload, JWT_SECRET) THEN "invalid token"
    ELSE IF token.payload.exp <= now THEN "token expired"
    ELSE "ok"

\* a validation that consults the blacklist before it decodes the token
decode_token_and_validate_blacklist_first(auth_header) ==
    IF auth_header.kind = "missing" THEN "missing authorization header"
    ELSE IF auth_header.kind # "bearer" THEN "invalid authorization header"
    ELSE IF is_blacklisted(auth_header.token.payload.jti) THEN "session invalidated"
    ELSE IF jwt_decode(auth_header.token) # "ok" THEN jwt_decode(auth_header.token)
    ELSE "ok"

\* decode_token_and_validate: "ok" or the message of abort(401, ...)
decode_token_and_validate(auth_header) ==
    IF auth_header.kind = "missing" THEN "missing authorization header"
    ELSE IF auth_header.kind # "bearer" THEN "invalid authorization header"
    ELSE IF jwt_decode(auth_header.token) # "ok" THEN jwt_decode(auth_header.token)
    ELSE IF is_blacklisted(auth_header.token.payload.jti) THEN "session invalidated"
    ELSE "ok"

\* the blacklist dict after decode_token_and_validate (is_blacklisted runs
\* only when the header and the token passed)
validate_dict_after(auth_header) ==
    IF auth_header.kind = "bearer" /\ jwt_decode(auth_header.token) = "ok"
    THEN is_blacklisted_dict_after(auth_header.token.payload.jti)
    ELSE _session_blacklist

(***************************************************************************)
(* Endpoints of src/api/app.py                                              *)
(***************************************************************************)
api_request_otp(doctor_id, otp, salt) ==
    IF doctor_id = ""
    THEN /\ resp' = Response("request_otp", "-", doctor_id, "", NoToken, 400,
                             "doctor_id required", {})
         /\ UNCHANGED <<r, _otp_store>>
    ELSE /\ IF USE_REDIS
            THEN r' = store_otp_redis(doctor_id, otp, salt, OTP_VALIDITY_SECONDS)
                 /\ UNCHANGED _otp_store
            ELSE _otp_store' = store_otp_dict(doctor_id, otp, salt, OTP_VALIDITY_SECONDS)
                 /\ UNCHANGED r
         /\ resp' = Response("request_otp", "-", doctor_id, otp, NoToken, 200, "", {})

ApiRequestOtp(D, S) ==
    \E doctor_id \in D \cup {""}, otp \in OtpCodes, salt \in S :
        /\ api_request_otp(doctor_id, otp, salt)
        /\ UNCHANGED <<scenario, providers, now, USE_REDIS, _session_blacklist, issued, hcVars, threads>>
        /\ Track

api_verify_otp(doctor_id, otp_in) ==
    IF doctor_id = "" \/ otp_in = ""
    THEN /\ resp' = Response("verify_otp", "-", doctor_id, otp_in, NoToken, 400,
                             "doctor_id and otp required", {})
         /\ UNCHANGED <<r, _otp_store, issued>>
    ELSE IF ~has_otp_record(doctor_id)
    THEN /\ resp' = Response("verify_otp", "-", doctor_id, otp_in, NoToken, 400,
                             "no valid otp found for this identifier or it expired", {})
         /\ UNCHANGED <<r, _otp_store, issued>>
    ELSE LET rec == get_otp_record(doctor_id) IN
         IF now_ts > rec.expires_at
         THEN /\ IF USE_REDIS
                 THEN r' = remove_otp_redis(doctor_id) /\ UNCHANGED _otp_store
                 ELSE _otp_store' = remove_otp_dict(doctor_id) /\ UNCHANGED r
              /\ resp' = Response("verify_otp", "-", doctor_id, otp_in, NoToken, 400,
                                  "otp expired", {})
              /\ UNCHANGED issued
         ELSE IF rec.h # hash_otp(otp_in, rec.salt)
         THEN /\ resp' = Response("verify_otp", "-", doctor_id, otp_in, NoToken, 401,
                                  "invalid otp", {})
              /\ UNCHANGED <<r, _otp_store, issued>>
         ELSE /\ Cardinality(issued) < MaxTokens
              /\ IF USE_REDIS
                 THEN r' = remove_otp_redis(doctor_id) /\ UNCHANGED _otp_store
                 ELSE _otp_store' = remove_otp_dict(doctor_id) /\ UNCHANGED r
              /\ LET token == create_session_token(doctor_id, SESSION_EXPIRY_SECONDS) IN
                    /\ issued' = issued \cup {token}
                    /\ resp' = Response("verify_otp", "-", doctor_id, otp_in, token, 200, "", {})

ApiVerifyOtp(D) ==
    \E doctor_id \in D \cup {""}, otp_raw \in OtpInputs :
        /\ api_verify_otp(doctor_id, Strip(otp_raw))
        /\ UNCHANGED <<scenario, providers, now, USE_REDIS, _session_blacklist, hcVars, threads>>
        /\ Track

api_get_patient(auth_header, patient_id) ==
    LET v == decode_token_and_validate(auth_header) IN
    /\ _session_blacklist' = validate_dict_after(auth_header)
    /\ resp' = IF v # "ok"
               THEN Response("get_patient", "-", patient_id, "", auth_header.token, 401, v, {})
               ELSE IF patient_id \notin PATIENT_DB
               THEN Response("get_patient", "-", patient_id, "", auth_header.token, 404,
                             "patient not found", {})
               ELSE Response("get_patient", "-", patient_id, "", auth_header.token, 200, "",
                             {patient_id})
    /\ UNCHANGED r

ApiGetPatient ==
    \E auth_header \in Headers, patient_id \in PATIENT_DB \cup {"nobody"} :
        /\ api_get_patient(auth_header, patient_id)
        /\ UNCHANGED <<scenario, providers, now, USE_REDIS, _otp_store, issued, hcVars, threads>>
        /\ Track

api_logout(auth_header) ==
    LET v == decode_token_and_validate(auth_header)
        checked == validate_dict_after(auth_header)
    IN  IF v # "ok"
        THEN /\ _session_blacklist' = checked
             /\ resp' = Response("logout", "-", "", "", auth_header.token, 401, v, {})
             /\ UNCHANGED r
        ELSE LET payload == auth_header.token.payload IN
             /\ IF USE_REDIS
                THEN /\ r' = blacklist_session_redis(payload.jti, payload.exp)
                     /\ UNCHANGED _session_blacklist
                ELSE /\ _session_blacklist' = blacklist_session_dict(checked, payload.jti, payload.exp)
                     /\ UNCHANGED r
             /\ resp' = Response("logout", "-", "", "", auth_header.token, 200, "", {})

ApiLogout ==
    \E auth_header \in Headers :
        /\ api_logout(auth_header)
        /\ UNCHANGED <<scenario, providers, now, USE_REDIS, _otp_store, issued, hcVars, threads>>
        /\ Track

(***************************************************************************)
(* src/healthcare_app.py: configuration, demo data and inputs.              *)
(***************************************************************************)
OTP_TTL_SECONDS == 300
\* an off-by-one ceiling: the attempt that reaches the ceiling is already refused
ReachesCeiling(attempts, ceiling) == attempts >= ceiling
\* record['attempts'] > MAX_OTP_ATTEMPTS
ExceedsCeiling(attempts, ceiling) == attempts > ceiling
\* an expiry test that never finds a record expired
otp_expired_never(record) == FALSE
\* datetime.utcnow() > record['expires_at']
otp_expired(record) == now > record.expires_at

PATIENT_OTP_TTL_SECONDS == 300
PATIENT_ACCESS_SECONDS == 120
PATIENT_LOGIN_OTP_TTL_SECONDS == 300

Clients == {"c1", "c2"}
Phones == {"+1-555-0100"}

\* the demo accounts (a doctor, the administrator, a patient)
DemoUsers ==
    [employee |-> [u \in {"emp001", "admin"} |->
                      IF u = "emp001"
                      THEN [password |-> "emp123", role |-> "Doctor", employee_id |-> 1]
                      ELSE [password |-> "admin123", role |-> "Administrator",
                            employee_id |-> 0]],
     patient  |-> [u \in {"pat001"} |-> [password |-> "pat123", patient_id |-> 1]]]

\* generate_employee_data / generate_patient_data: ids 1.., 'PAT0001'..
DemoData ==
    [employees |-> {[id |-> 1, employee_id |-> "EMP0001"], [id |-> 2, employee_id |-> "EMP0002"]},
     patients  |-> {[id |-> 1, patient_id |-> "PAT0001"], [id |-> 2, patient_id |-> "PAT0002"]}]

\* datetime.isoformat() and datetime.fromisoformat()
IsoFormat(t) == <<"iso", t>>
FromIsoFormat(s) == s[2]

(***************************************************************************)
(* OTP record objects.  A store maps an identifier to a record object; the  *)
(* object lives in the heap while a store or a running handler refers to it.*)
(***************************************************************************)
NoRef == <<"none">>
ThreadRefs == {threads[t].record : t \in DOMAIN threads} \ {NoRef}

Free(h, oids) == [x \in DOMAIN h \ (oids \ ThreadRefs) |-> h[x]]

FreshOid(h, name, k) ==
    <<name, k, CHOOSE g \in 0..Cardinality(DOMAIN h) :
                   /\ <<name, k, g>> \notin DOMAIN h
                   /\ \A g2 \in 0..(g - 1) : <<name, k, g2>> \in DOMAIN h>>

\* store.setdefault(k, {...}): the object the key refers to is kept
AssignSetdefault(store, h, name, k, rec) ==
    IF k \in DOMAIN store THEN [store |-> store, heap |-> h]
    ELSE LET oid == FreshOid(h, name, k)
         IN  [store |-> Put(store, k, oid), heap |-> Put(h, oid, rec)]
\* store[k] = {...}: a new object replaces the one the key referred to
Assign(store, h, name, k, rec) ==
    LET h1 == Free(h, IF k \in DOMAIN store THEN {store[k]} ELSE {})
        oid == FreshOid(h1, name, k)
    IN  [store |-> Put(store, k, oid), heap |-> Put(h1, oid, rec)]

\* a pop that leaves the record in the store
RemoveNothing(store, h, k) == [store |-> store, heap |-> h]
\* store.pop(k, None)
Remove(store, h, k) ==
    [store |-> Pop(store, k), heap |-> Free(h, IF k \in DOMAIN store THEN {store[k]} ELSE {})]

(***************************************************************************)
(* Sessions: login, logout                                                  *)
(***************************************************************************)
HcResponse(op, c, id, otp, status, error, data) ==
    Response(op, c, id, otp, NoToken, status, error, data)

login(c, user_type, username, password) ==
    IF /\ user_type \in DOMAIN USERS
       /\ username \in DOMAIN USERS[user_type]
       /\ USERS[user_type][username].password = password
    THEN /\ session' = [session EXCEPT ![c] =
                Put(Put(Put(@, "user_type", user_type), "username", username),
                    "user_data", USERS[user_type][username])]
         /\ resp' = HcResponse("login", c, username, "", 200, "", {})
    ELSE /\ resp' = HcResponse("login", c, username, "", 401, "Invalid credentials", {})
         /\ UNCHANGED session

Login(C, U) ==
    \E c \in C, user_type \in {"employee", "patient", "guest"}, username \in U,
       password \in {"emp123", "admin123", "pat123"} :
        /\ login(c, user_type, username, password)
        /\ UNCHANGED <<scenario, providers, now, apiVars, USERS, healthcare_data, otp_store,
                       patient_otp_store, patient_login_otp_store, heap, threads>>
        /\ Track

logout(c) ==
    /\ session' = [session EXCEPT ![c] = EmptyDict]
    /\ resp' = HcResponse("logout", c, "", "", 302, "", {})

Logout(C) ==
    \E c \in C :
        /\ logout(c)
        /\ UNCHANGED <<scenario, providers, now, apiVars, USERS, healthcare_data, otp_store,
                       patient_otp_store, patient_login_otp_store, heap, threads>>
        /\ Track

\* a check that any logged-in session passes
is_logged_in_session(c) == "user_type" \in DOMAIN session[c]
is_employee_session(c) ==
    "user_type" \in DOMAIN session[c] /\ session[c]["user_type"] = "employee"

_is_admin_session(c) ==
    /\ "user_type" \in DOMAIN session[c]
    /\ session[c]["user_type"] = "employee"
    /\ "user_data" \in DOMAIN session[c]
    /\ session[c]["user_data"].role = "Administrator"

(***************************************************************************)
(* Employee login OTP: /api/request-otp, /api/verify-otp                    *)
(***************************************************************************)
request_otp_for(identifier, otp) ==
    LET a == Assign(otp_store, heap, "otp_store", identifier,
                    [otp |-> otp, expires_at |-> now + OTP_TTL_SECONDS, attempts |-> 0])
    IN  otp_store' = a.store /\ heap' = a.heap

hc_api_request_otp(c, identifier, otp) ==
    IF identifier = ""
    THEN /\ resp' = HcResponse("request-otp", c, identifier, "", 400, "identifier required", {})
         /\ UNCHANGED <<otp_store, heap>>
    ELSE IF identifier \notin DOMAIN USERS.employee
    THEN /\ resp' = HcResponse("request-otp", c, identifier, "", 404,
                               "unknown employee identifier", {})
         /\ UNCHANGED <<otp_store, heap>>
    ELSE /\ request_otp_for(identifier, otp)
         /\ resp' = HcResponse("request-otp", c, identifier, otp, 200, "", {})

HcRequestOtp(C, I) ==
    \E c \in C, identifier \in I \cup {""}, otp \in OtpCodes :
        /\ hc_api_request_otp(c, identifier, otp)
        /\ UNCHANGED <<scenario, providers, now, apiVars, USERS, healthcare_data, patient_otp_store,
                       patient_login_otp_store, session, threads>>
        /\ Track

hc_api_verify_otp(c, identifier, otp) ==
    IF identifier = "" \/ otp = ""
    THEN /\ resp' = HcResponse("verify-otp", c, identifier, otp, 400,
                               "identifier and otp required", {})
         /\ UNCHANGED <<otp_store, heap, session>>
    ELSE IF identifier \notin DOMAIN otp_store
    THEN /\ resp' = HcResponse("verify-otp", c, identifier, otp, 400,
                               "no OTP requested for this identifier", {})
         /\ UNCHANGED <<otp_store, heap, session>>
    ELSE LET oid == otp_store[identifier]
             record == [heap[oid] EXCEPT !.attempts = @ + 1]
             h1 == Put(heap, oid, record)
             popped == Remove(otp_store, h1, identifier)
         IN  IF ExceedsCeiling(record.attempts, MAX_OTP_ATTEMPTS)
             THEN /\ otp_store' = popped.store /\ heap' = popped.heap
                  /\ resp' = HcResponse("verify-otp", c, identifier, otp, 429,
                                        "too many attempts", {})
                  /\ UNCHANGED session
             ELSE IF otp_expired(record)
             THEN /\ otp_store' = popped.store /\ heap' = popped.heap
                  /\ resp' = HcResponse("verify-otp", c, identifier, otp, 400, "otp expired", {})
                  /\ UNCHANGED session
             ELSE IF record.otp # Strip(otp)
             THEN /\ heap' = h1
                  /\ resp' = HcResponse("verify-otp", c, identifier, otp, 400, "invalid otp", {})
                  /\ UNCHANGED <<otp_store, session>>
             ELSE /\ otp_store' = popped.store /\ heap' = popped.heap
                  /\ IF identifier \notin DOMAIN USERS.employee
                     THEN /\ resp' = HcResponse("verify-otp", c, identifier, otp, 404,
                                                "employee not found", {})
                          /\ UNCHANGED session
                     ELSE /\ session' = [session EXCEPT ![c] =
                                 Put(Put(Put(@, "user_type", "employee"),
                                         "username", identifier),
                                     "user_data", USERS.employee[identifier])]
                          /\ resp' = HcResponse("verify-otp", c, identifier, otp, 200, "", {})

HcVerifyOtp(C, I) ==
    \E c \in C, identifier \in I \cup {""}, otp \in OtpInputs :
        /\ hc_api_verify_otp(c, identifier, otp)
        /\ UNCHANGED <<scenario, providers, now, apiVars, USERS, healthcare_data, patient_otp_store,
                       patient_login_otp_store, threads>>
        /\ Track

\* one pass of the loop of otp_cleanup_task
otp_cleanup_task ==
    LET to_remove == {k \in DOMAIN otp_store : heap[otp_store[k]].expires_at < now}
    IN  /\ to_remove # {}
        /\ otp_store' = [k \in DOMAIN otp_store \ to_remove |-> otp_store[k]]
        /\ heap' = Free(heap, {otp_store[k] : k \in to_remove})
        /\ UNCHANGED <<scenario, providers, now, apiVars, USERS, healthcare_data, patient_otp_store,
                       patient_login_otp_store, session, threads, history>>
        /\ resp' = Idle

(***************************************************************************)
(* Patient login OTP: /api/request-patient-login-otp, verify-patient-login  *)
(***************************************************************************)
api_request_patient_login_otp(c, identifier, otp) ==
    IF identifier = ""
    THEN /\ resp' = HcResponse("request-patient-login-otp", c, identifier, "", 400,
                               "identifier required", {})
         /\ UNCHANGED <<patient_login_otp_store, heap>>
    ELSE IF identifier \notin DOMAIN USERS.patient
    THEN /\ resp' = HcResponse("request-patient-login-otp", c, identifier, "", 404,
                               "unknown patient identifier", {})
         /\ UNCHANGED <<patient_login_otp_store, heap>>
    ELSE LET a == Assign(patient_login_otp_store, heap, "patient_login_otp_store", identifier,
                         [otp |-> otp, expires_at |-> now + PATIENT_LOGIN_OTP_TTL_SECONDS,
                          attempts |-> 0])
         IN  /\ patient_login_otp_store' = a.store /\ heap' = a.heap
             /\ resp' = HcResponse("request-patient-login-otp", c, identifier, otp, 200, "", {})

RequestPatientLoginOtp(C, I) ==
    \E c \in C, identifier \in I \cup {""}, otp \in OtpCodes :
        /\ api_request_patient_login_otp(c, identifier, otp)
        /\ UNCHANGED <<scenario, providers, now, apiVars, USERS, healthcare_data, otp_store,
                       patient_otp_store, session, threads>>
        /\ Track

api_verify_patient_login_otp(c, identifier, otp) ==
    IF identifier = "" \/ otp = ""
    THEN /\ resp' = HcResponse("verify-patient-login-otp", c, identifier, otp, 400,
                               "identifier and otp required", {})
         /\ UNCHANGED <<patient_login_otp_store, heap, session>>
    ELSE IF identifier \notin DOMAIN patient_login_otp_store
    THEN /\ resp' = HcResponse("verify-patient-login-otp", c, identifier, otp, 400,
                               "no OTP requested for this identifier", {})
         /\ UNCHANGED <<patient_login_otp_store, heap, session>>
    ELSE LET oid == patient_login_otp_store[identifier]
             record == [heap[oid] EXCEPT !.attempts = @ + 1]
             h1 == Put(heap, oid, record)
             popped == Remove(patient_login_otp_store, h1, identifier)
         IN  IF ExceedsCeiling(record.attempts, MAX_OTP_ATTEMPTS)
             THEN /\ patient_login_otp_store' = popped.store /\ heap' = popped.heap
                  /\ resp' = HcResponse("verify-patient-login-otp", c, identifier, otp, 429,
                                        "too many attempts", {})
                  /\ UNCHANGED session
             ELSE IF otp_expired(record)
             THEN /\ patient_login_otp_store' = popped.store /\ heap' = popped.heap
                  /\ resp' = HcResponse("verify-patient-login-otp", c, identifier, otp, 400,
                                        "otp expired", {})
                  /\ UNCHANGED session
             ELSE IF record.otp # Strip(otp)
             THEN /\ heap' = h1
                  /\ resp' = HcResponse("verify-patient-login-otp", c, identifier, otp, 400,
                                        "invalid otp", {})
                  /\ UNCHANGED <<patient_login_otp_store, session>>
             ELSE /\ patient_login_otp_store' = popped.store /\ heap' = popped.heap
                  /\ IF identifier \notin DOMAIN USERS.patient
                     THEN /\ resp' = HcResponse("verify-patient-login-otp", c, identifier, otp,
                                                404, "patient not found", {})
                          /\ UNCHANGED session
                     ELSE /\ session' = [session EXCEPT ![c] =
                                 Put(Put(Put(@, "user_type", "patient"),
                                         "username", identifier),
                                     "user_data", USERS.patient[identifier])]
                          /\ resp' = HcResponse("verify-patient-login-otp", c, identifier, otp,
                                                200, "", {})

VerifyPatientLoginOtp(C, I) ==
    \E c \in C, identifier \in I \cup {""}, otp \in OtpInputs :
        /\ api_verify_patient_login_otp(c, identifier, otp)
        /\ UNCHANGED <<scenario, providers, now, apiVars, USERS, healthcare_data, otp_store,
                       patient_otp_store, threads>>
        /\ Track

\* one pass of the loop of patient_login_otp_cleanup_task
patient_login_otp_cleanup_task ==
    LET to_remove == {k \in DOMAIN patient_login_otp_store :
                          heap[patient_login_otp_store[k]].expires_at < now}
    IN  /\ to_remove # {}
        /\ patient_login_otp_store' =
               [k \in DOMAIN patient_login_otp_store \ to_remove |-> patient_login_otp_store[k]]
        /\ heap' = Free(heap, {patient_login_otp_store[k] : k \in to_remove})
        /\ UNCHANGED <<scenario, providers, now, apiVars, USERS, healthcare_data, otp_store,
                       patient_otp_store, session, threads, history>>
        /\ resp' = Idle

(***************************************************************************)
(* Patient consent OTP: /api/request-patient-otp, /api/verify-patient-otp   *)
(***************************************************************************)
api_request_patient_otp(c, phone, patient_id, otp) ==
    IF ~is_employee_session(c)
    THEN /\ resp' = HcResponse("request-patient-otp", c, phone, "", 403, "unauthorized", {})
         /\ UNCHANGED <<patient_otp_store, heap>>
    ELSE IF phone = "" \/ patient_id = ""
    THEN /\ resp' = HcResponse("request-patient-otp", c, phone, "", 400,
                               "phone and patient_id required", {})
         /\ UNCHANGED <<patient_otp_store, heap>>
    ELSE IF ~(\E p \in healthcare_data.patients : p.patient_id = patient_id)
    THEN /\ resp' = HcResponse("request-patient-otp", c, phone, "", 404, "patient not found", {})
         /\ UNCHANGED <<patient_otp_store, heap>>
    ELSE LET a == Assign(patient_otp_store, heap, "patient_otp_store", phone,
                         [otp |-> otp, expires_at |-> now + PATIENT_OTP_TTL_SECONDS,
                          attempts |-> 0, patient_id |-> patient_id])
         IN  /\ patient_otp_store' = a.store /\ heap' = a.heap
             /\ resp' = HcResponse("request-patient-otp", c, phone, otp, 200, "", {patient_id})

RequestPatientOtp(C, P) ==
    \E c \in C, phone \in Phones \cup {""}, patient_id \in P, otp \in OtpCodes :
        /\ api_request_patient_otp(c, phone, patient_id, otp)
        /\ UNCHANGED <<scenario, providers, now, apiVars, USERS, healthcare_data, otp_store,
                       patient_login_otp_store, session, threads>>
        /\ Track

\* an assignment that keeps a grant the session already holds
grant_access_setdefault(sess, patient_id) ==
    IF "patient_access" \in DOMAIN sess THEN sess
    ELSE Put(sess, "patient_access",
             [patient_id |-> patient_id,
              expires_at |-> IsoFormat(now + PATIENT_ACCESS_SECONDS)])
\* session['patient_access'] = {'patient_id': ..., 'expires_at': ...isoformat()}
grant_access(sess, patient_id) ==
    Put(sess, "patient_access",
        [patient_id |-> patient_id,
         expires_at |-> IsoFormat(now + PATIENT_ACCESS_SECONDS)])

api_verify_patient_otp(c, phone, otp) ==
    IF ~is_employee_session(c)
    THEN /\ resp' = HcResponse("verify-patient-otp", c, phone, otp, 403, "unauthorized", {})
         /\ UNCHANGED <<patient_otp_store, heap, session>>
    ELSE IF phone = "" \/ otp = ""
    THEN /\ resp' = HcResponse("verify-patient-otp", c, phone, otp, 400,
                               "phone and otp required", {})
         /\ UNCHANGED <<patient_otp_store, heap, session>>
    ELSE IF phone \notin DOMAIN patient_otp_store
    THEN /\ resp' = HcResponse("verify-patient-otp", c, phone, otp, 400,
                               "otp not requested for this phone", {})
         /\ UNCHANGED <<patient_otp_store, heap, session>>
    ELSE LET oid == patient_otp_store[phone]
             record == heap[oid]
             popped == Remove(patient_otp_store, heap, phone)
         IN  IF otp_expired(record)
             THEN /\ patient_otp_store' = popped.store /\ heap' = popped.heap
                  /\ resp' = HcResponse("verify-patient-otp", c, phone, otp, 400,
                                        "otp expired", {})
                  /\ UNCHANGED session
             ELSE IF record.otp # Strip(otp)
             THEN LET bumped == [record EXCEPT !.attempts = @ + 1]
                      popped2 == Remove(patient_otp_store, Put(heap, oid, bumped), phone)
                  IN  IF ExceedsCeiling(bumped.attempts, 5)
                      THEN /\ patient_otp_store' = popped2.store /\ heap' = popped2.heap
                           /\ resp' = HcResponse("verify-patient-otp", c, phone, otp, 429,
                                                 "too many attempts", {})
                           /\ UNCHANGED session
                      ELSE /\ heap' = Put(heap, oid, bumped)
                           /\ resp' = HcResponse("verify-patient-otp", c, phone, otp, 400,
                                                 "invalid otp", {})
                           /\ UNCHANGED <<patient_otp_store, session>>
             ELSE /\ session' = [session EXCEPT ![c] = grant_access(@, record.patient_id)]
                  /\ patient_otp_store' = popped.store /\ heap' = popped.heap
                  /\ resp' = HcResponse("verify-patient-otp", c, phone, otp, 200, "",
                                        {record.patient_id})

VerifyPatientOtp(C) ==
    \E c \in C, phone \in Phones \cup {""}, otp \in OtpInputs :
        /\ api_verify_patient_otp(c, phone, otp)
        /\ UNCHANGED <<scenario, providers, now, apiVars, USERS, healthcare_data, otp_store,
                       patient_login_otp_store, threads>>
        /\ Track

\* one pass of the loop of patient_otp_cleanup_task
patient_otp_cleanup_task ==
    LET to_remove == {k \in DOMAIN patient_otp_store :
                          heap[patient_otp_store[k]].expires_at < now}
    IN  /\ to_remove # {}
        /\ patient_otp_store' =
               [k \in DOMAIN patient_otp_store \ to_remove |-> patient_otp_store[k]]
        /\ heap' = Free(heap, {patient_otp_store[k] : k \in to_remove})
        /\ UNCHANGED <<scenario, providers, now, apiVars, USERS, healthcare_data, otp_store,
                       patient_login_otp_store, session, threads, history>>
        /\ resp' = Idle

(***************************************************************************)
(* Patient records: /api/get-patient/<id>, /api/revoke-patient-access,      *)
(* /api/patients, /api/export/patients/<fmt>                                *)
(***************************************************************************)
\* str(n) of the small integers that occur as ids
str(n) == IF n \in 0..9 THEN <<"0", "1", "2", "3", "4", "5", "6", "7", "8", "9">>[n + 1]
          ELSE "10+"
\* f"PAT{int(pid):04d}"
PatFormat(n) == IF n \in 1..3 THEN <<"PAT0001", "PAT0002", "PAT0003">>[n] ELSE "PAT9999"

PatientPaths == {"PAT0001", "PAT0002", "2", "PAT0404"}

\* a guard that never finds a grant expired
grant_expired_never(access) == FALSE
\* a guard that finds every grant expired
grant_expired_always(access) == TRUE
\* datetime.utcnow() > datetime.fromisoformat(access['expires_at'])
grant_expired(access) == now > FromIsoFormat(access.expires_at)

\* a guard that accepts a grant for any patient
grant_matches_any(access, patient) == TRUE
\* access.get('patient_id') == patient.get('patient_id')
grant_matches(access, patient) == access.patient_id = patient.patient_id

\* next((p for p in patients if p['patient_id'] == patient_id or str(p['id']) == str(patient_id)), None)
find_patient(patient_id) ==
    {p \in healthcare_data.patients : p.patient_id = patient_id \/ str(p.id) = patient_id}

hc_api_get_patient(c, patient_id) ==
    LET found == find_patient(patient_id)
        patient == CHOOSE p \in found : TRUE
        access == session[c]["patient_access"]
    IN  IF "user_type" \notin DOMAIN session[c]
        THEN /\ resp' = HcResponse("get-patient", c, patient_id, "", 403, "Unauthorized", {})
             /\ UNCHANGED session
        ELSE IF found = {}
        THEN /\ resp' = HcResponse("get-patient", c, patient_id, "", 404, "Not found", {})
             /\ UNCHANGED session
        ELSE IF session[c]["user_type"] = "patient"
        THEN /\ resp' = IF session[c]["user_data"].patient_id = patient.id
                        THEN HcResponse("get-patient", c, patient_id, "", 200, "",
                                        {patient.patient_id})
                        ELSE HcResponse("get-patient", c, patient_id, "", 403,
                                        "Unauthorized", {})
             /\ UNCHANGED session
        ELSE IF session[c]["user_type"] = "employee"
        THEN IF "patient_access" \notin DOMAIN session[c]
             THEN /\ resp' = HcResponse("get-patient", c, patient_id, "", 401,
                                        "access_required", {})
                  /\ UNCHANGED session
             ELSE IF grant_expired(access)
             THEN /\ session' = [session EXCEPT ![c] = Pop(@, "patient_access")]
                  /\ resp' = HcResponse("get-patient", c, patient_id, "", 401,
                                        "access_expired", {})
             ELSE IF ~grant_matches(access, patient)
             THEN /\ resp' = HcResponse("get-patient", c, patient_id, "", 403,
                                        "access_mismatch", {})
                  /\ UNCHANGED session
             ELSE /\ resp' = HcResponse("get-patient", c, patient_id, "", 200, "",
                                        {patient.patient_id})
                  /\ UNCHANGED session
        ELSE /\ resp' = HcResponse("get-patient", c, patient_id, "", 403, "Unauthorized", {})
             /\ UNCHANGED session

HcGetPatient(C) ==
    \E c \in C, patient_id \in PatientPaths :
        /\ hc_api_get_patient(c, patient_id)
        /\ UNCHANGED <<scenario, providers, now, apiVars, USERS, healthcare_data, otp_store,
                       patient_otp_store, patient_login_otp_store, heap, threads>>
        /\ Track

\* session.pop('patient_access') without the default: a KeyError when no grant is held
api_revoke_patient_access_keyerror(c) ==
    IF ~is_employee_session(c)
    THEN /\ resp' = HcResponse("revoke-patient-access", c, "", "", 403, "unauthorized", {})
         /\ UNCHANGED session
    ELSE IF "patient_access" \notin DOMAIN session[c]
    THEN /\ resp' = HcResponse("revoke-patient-access", c, "", "", 500, "KeyError", {})
         /\ UNCHANGED session
    ELSE /\ session' = [session EXCEPT ![c] = Pop(@, "patient_access")]
         /\ resp' = HcResponse("revoke-patient-access", c, "", "", 200, "", {})

api_revoke_patient_access(c) ==
    IF ~is_employee_session(c)
    THEN /\ resp' = HcResponse("revoke-patient-access", c, "", "", 403, "unauthorized", {})
         /\ UNCHANGED session
    ELSE /\ session' = [session EXCEPT ![c] = Pop(@, "patient_access")]
         /\ resp' = HcResponse("revoke-patient-access", c, "", "", 200, "", {})

RevokePatientAccess(C) ==
    \E c \in C :
        /\ api_revoke_patient_access(c)
        /\ UNCHANGED <<scenario, providers, now, apiVars, USERS, healthcare_data, otp_store,
                       patient_otp_store, patient_login_otp_store, heap, threads>>
        /\ Track

\* a match that holds of every record
_matches_any(patient, pid) == TRUE
\* _matches(p, pid) of api_get_patients, pid being the integer id of the account
_matches(patient, pid) ==
    \/ str(patient.id) = str(pid)
    \/ patient.patient_id = str(pid)
    \/ patient.patient_id = PatFormat(pid)

api_get_patients(c) ==
    /\ resp' =
         IF "user_type" \notin DOMAIN session[c]
         THEN HcResponse("patients", c, "", "", 403, "Unauthorized", {})
         ELSE IF session[c]["user_type"] = "employee"
         THEN HcResponse("patients", c, "", "", 200, "",
                         {p.patient_id : p \in healthcare_data.patients})
         ELSE IF session[c]["user_type"] = "patient"
         THEN HcResponse("patients", c, "", "", 200, "",
                         {p.patient_id : p \in {q \in healthcare_data.patients :
                              _matches(q, session[c]["user_data"].patient_id)}})
         ELSE HcResponse("patients", c, "", "", 403, "Unauthorized", {})
    /\ UNCHANGED session

HcGetPatients(C) ==
    \E c \in C :
        /\ api_get_patients(c)
        /\ UNCHANGED <<scenario, providers, now, apiVars, USERS, healthcare_data, otp_store,
                       patient_otp_store, patient_login_otp_store, heap, session, threads>>
        /\ Track

\* /api/patient/me: the records next(...) can return for the session's patient id
api_patient_me(c) ==
    /\ resp' =
         IF "user_type" \notin DOMAIN session[c]
         THEN HcResponse("patient-me", c, "", "", 403, "Unauthorized", {})
         ELSE IF session[c]["user_type"] # "patient"
         THEN HcResponse("patient-me", c, "", "", 403, "Unauthorized", {})
         ELSE HcResponse("patient-me", c, "", "", 200, "",
                         {p.patient_id : p \in {q \in healthcare_data.patients :
                              _matches(q, session[c]["user_data"].patient_id)}})
    /\ UNCHANGED session

PatientMe(C) ==
    \E c \in C :
        /\ api_patient_me(c)
        /\ UNCHANGED <<scenario, providers, now, apiVars, USERS, healthcare_data, otp_store,
                       patient_otp_store, patient_login_otp_store, heap, session, threads>>
        /\ Track

api_export_patients(c, fmt) ==
    resp' =
        IF ~is_employee_session(c)
        THEN HcResponse("export-patients", c, fmt, "", 403, "Unauthorized", {})
        ELSE IF fmt \notin {"csv", "excel", "xlsx"}
        THEN HcResponse("export-patients", c, fmt, "", 400, "Invalid format", {})
        ELSE HcResponse("export-patients", c, fmt, "", 200, "",
                        {p.patient_id : p \in healthcare_data.patients})

ExportPatients(C) ==
    \E c \in C, fmt \in {"csv", "pdf"} :
        /\ api_export_patients(c, fmt)
        /\ UNCHANGED <<scenario, providers, now, apiVars, USERS, healthcare_data, otp_store,
                       patient_otp_store, patient_login_otp_store, heap, session, threads>>
        /\ Track

(***************************************************************************)
(* Administration: DELETE /api/employees/<id>, DELETE /api/patients/<id>    *)
(***************************************************************************)
api_delete_employee(c, emp_id) ==
    IF ~_is_admin_session(c)
    THEN /\ resp' = HcResponse("delete-employee", c, str(emp_id), "", 403, "unauthorized", {})
         /\ UNCHANGED <<healthcare_data, USERS>>
    ELSE IF ~(\E e \in healthcare_data.employees : e.id = emp_id)
    THEN /\ resp' = HcResponse("delete-employee", c, str(emp_id), "", 404, "not found", {})
         /\ UNCHANGED <<healthcare_data, USERS>>
    ELSE /\ healthcare_data' = [healthcare_data EXCEPT
                !.employees = {e \in @ : e.id # emp_id}]
         /\ USERS' = [USERS EXCEPT !.employee =
                [u \in {x \in DOMAIN USERS.employee :
                            USERS.employee[x].employee_id # emp_id} |-> USERS.employee[u]]]
         /\ resp' = HcResponse("delete-employee", c, str(emp_id), "", 200, "", {})

DeleteEmployee(C) ==
    \E c \in C, emp_id \in {1, 7} :
        /\ api_delete_employee(c, emp_id)
        /\ UNCHANGED <<scenario, providers, now, apiVars, otp_store, patient_otp_store,
                       patient_login_otp_store, heap, session, threads>>
        /\ Track

\* PUT /api/employees/<id> with a role in the body: the role is written to the
\* employee record and to every login of the employee (the employee records
\* of the model carry the ids only)
api_modify_employee(c, emp_id, role) ==
    IF ~_is_admin_session(c)
    THEN /\ resp' = HcResponse("modify-employee", c, str(emp_id), "", 403, "unauthorized", {})
         /\ UNCHANGED USERS
    ELSE IF ~(\E e \in healthcare_data.employees : e.id = emp_id)
    THEN /\ resp' = HcResponse("modify-employee", c, str(emp_id), "", 404, "not found", {})
         /\ UNCHANGED USERS
    ELSE /\ USERS' = [USERS EXCEPT !.employee =
                [u \in DOMAIN USERS.employee |->
                    IF USERS.employee[u].employee_id = emp_id
                    THEN [USERS.employee[u] EXCEPT !.role = role]
                    ELSE USERS.employee[u]]]
         /\ resp' = HcResponse("modify-employee", c, str(emp_id), "", 200, "", {})

ModifyEmployee(C) ==
    \E c \in C, emp_id \in {1, 7}, role \in {"Administrator", "Doctor"} :
        /\ api_modify_employee(c, emp_id, role)
        /\ UNCHANGED <<scenario, providers, now, apiVars, healthcare_data, otp_store, patient_otp_store,
                       patient_login_otp_store, heap, session, threads>>
        /\ Track

api_delete_patient(c, pat_id) ==
    IF ~is_employee_session(c)
    THEN /\ resp' = HcResponse("delete-patient", c, str(pat_id), "", 403, "unauthorized", {})
         /\ UNCHANGED <<healthcare_data, USERS>>
    ELSE IF session[c]["user_data"].role # "Administrator"
    THEN /\ resp' = HcResponse("delete-patient", c, str(pat_id), "", 403,
                               "only admin can delete patients", {})
         /\ UNCHANGED <<healthcare_data, USERS>>
    ELSE IF ~(\E p \in healthcare_data.patients : p.id = pat_id)
    THEN /\ resp' = HcResponse("delete-patient", c, str(pat_id), "", 404, "not found", {})
         /\ UNCHANGED <<healthcare_data, USERS>>
    ELSE /\ healthcare_data' = [healthcare_data EXCEPT
                !.patients = {p \in @ : p.id # pat_id}]
         /\ USERS' = [USERS EXCEPT !.patient =
                [u \in {x \in DOMAIN USERS.patient :
                            USERS.patient[x].patient_id # pat_id} |-> USERS.patient[u]]]
         /\ resp' = HcResponse("delete-patient", c, str(pat_id), "", 200, "",
                               {p.patient_id : p \in {q \in healthcare_data.patients :
                                                         q.id = pat_id}})

DeletePatient(C) ==
    \E c \in C, pat_id \in {1, 7} :
        /\ api_delete_patient(c, pat_id)
        /\ UNCHANGED <<scenario, providers, now, apiVars, otp_store, patient_otp_store,
                       patient_login_otp_store, heap, session, threads>>
        /\ Track

(***************************************************************************)
(* The clock.  Redis drops the keys whose expireat is reached.              *)
(***************************************************************************)
Tick(dt) ==
    /\ now + dt <= MaxTicks * dt
    /\ now' = now + dt
    /\ r' = RedisAt(r, now')
    /\ resp' = Idle
    /\ UNCHANGED <<scenario, providers, USE_REDIS, _otp_store, _session_blacklist, issued,
                   hcVars, threads, history>>

\* the state of Init in the scenarios S
InitIn(S) ==
    /\ scenario \in S
    /\ now = 0
    /\ USE_REDIS \in (IF scenario \in {"api", "api_audit"} THEN BOOLEAN ELSE {FALSE})
    /\ r = EmptyDict
    /\ _otp_store = EmptyDict
    /\ _session_blacklist = EmptyDict
    /\ issued = {}
    /\ USERS = DemoUsers
    /\ healthcare_data = DemoData
    /\ otp_store = EmptyDict
    /\ patient_otp_store = EmptyDict
    /\ patient_login_otp_store = EmptyDict
    /\ heap = EmptyDict
    /\ session = [c \in Clients |-> EmptyDict]
    /\ threads = EmptyDict
    /\ providers = <<>>
    /\ resp = Idle
    /\ history = {}

Init ==
    /\ scenario \in {"api", "employee_login", "patient_login", "consent"}
    /\ now = 0
    /\ USE_REDIS \in (IF scenario = "api" THEN BOOLEAN ELSE {FALSE})
    /\ r = EmptyDict
    /\ _otp_store = EmptyDict
    /\ _session_blacklist = EmptyDict
    /\ issued = {}
    /\ USERS = DemoUsers
    /\ healthcare_data = DemoData
    /\ otp_store = EmptyDict
    /\ patient_otp_store = EmptyDict
    /\ patient_login_otp_store = EmptyDict
    /\ heap = EmptyDict
    /\ session = [c \in Clients |-> EmptyDict]
    /\ threads = EmptyDict
    /\ providers = <<>>
    /\ resp = Idle
    /\ history = {}

(***************************************************************************)
(* SpecOtp: the four OTP engines, one per behaviour.                        *)
(***************************************************************************)
OtpStep == IF scenario = "api" THEN OTP_VALIDITY_SECONDS ELSE OTP_TTL_SECONDS

NextOtp ==
    \/ scenario = "api" /\ ApiRequestOtp(Doctors, {"a3f1"})
    \/ scenario = "api" /\ ApiVerifyOtp(Doctors)
    \/ scenario = "employee_login" /\ HcRequestOtp({"c1"}, {"emp001"})
    \/ scenario = "employee_login" /\ HcVerifyOtp({"c1"}, {"emp001"})
    \/ scenario = "employee_login" /\ DeleteEmployee({"c1"})
    \/ scenario = "employee_login" /\ otp_cleanup_task
    \/ scenario = "patient_login" /\ RequestPatientLoginOtp({"c1"}, {"pat001"})
    \/ scenario = "patient_login" /\ VerifyPatientLoginOtp({"c1"}, {"pat001"})
    \/ scenario = "patient_login" /\ DeletePatient({"c1"})
    \/ scenario = "patient_login" /\ patient_login_otp_cleanup_task
    \/ scenario = "consent" /\ RequestPatientOtp({"c1"}, {"PAT0001", ""})
    \/ scenario = "consent" /\ VerifyPatientOtp({"c1"})
    \/ scenario = "consent" /\ patient_otp_cleanup_task
    \/ scenario \in {"employee_login", "patient_login"} /\ Login({"c1"}, {"admin"})
    \/ scenario = "consent" /\ Login({"c1"}, {"emp001"})
    \/ scenario # "api" /\ Logout({"c1"})
    \/ Tick(OtpStep)

SpecOtp == Init /\ [][NextOtp]_vars
(***************************************************************************)
(* Vocabulary of the OTP claims: the pending record an engine holds for an  *)
(* identifier, and the outcome classes of a verification.                   *)
(***************************************************************************)

StoreOf(op) ==
    CASE op = "verify-otp" -> otp_store
      [] op = "verify-patient-login-otp" -> patient_login_otp_store
      [] op = "verify-patient-otp" -> patient_otp_store

HasRec(op, id) ==
    IF op = "verify_otp" THEN has_otp_record(id) ELSE id \in DOMAIN StoreOf(op)
RecExpiresAt(op, id) ==
    IF op = "verify_otp" THEN get_otp_record(id).expires_at
    ELSE heap[StoreOf(op)[id]].expires_at
RecAttempts(op, id) ==
    IF op = "verify_otp" THEN 0 ELSE heap[StoreOf(op)[id]].attempts
ExactSecret(op, id, cand) ==
    IF op = "verify_otp"
    THEN get_otp_record(id).h = hash_otp(Strip(cand), get_otp_record(id).salt)
    ELSE heap[StoreOf(op)[id]].otp = Strip(cand)

\* the caller passes the session check in front of the engine
Admitted(op, c) == op = "verify-patient-otp" => is_employee_session(c)
AccountExists(op, id) ==
    CASE op = "verify-otp" -> id \in DOMAIN USERS.employee
      [] op = "verify-patient-login-otp" -> id \in DOMAIN USERS.patient
      [] OTHER -> TRUE

Succeeds(rsp) == rsp.status = 200
NotFound(rsp) ==
    rsp.error \in {"no valid otp found for this identifier or it expired",
                   "no OTP requested for this identifier",
                   "otp not requested for this phone"}
Expired(rsp) == rsp.error = "otp expired"
Invalid(rsp) == rsp.error = "invalid otp"
TooManyAttempts(rsp) == rsp.error = "too many attempts"

\* the step serves the verification request (op, c, id, cand)
Verifies(op, c, id, cand) ==
    /\ resp'.op = op /\ resp'.c = c /\ resp'.id = id /\ resp'.otp = cand
    /\ id # "" /\ cand # ""
    /\ Admitted(op, c)

\* a fresh, unexpired record and the exact secret
FirstExact(op, id, cand) ==
    /\ HasRec(op, id)
    /\ RecAttempts(op, id) = 0
    /\ now < RecExpiresAt(op, id)
    /\ ExactSecret(op, id, cand)

Consumed(op, id, cand) == <<"consumed", op, id, Strip(cand)>> \in history

(***************************************************************************)
(* C1 as stated: for every identifier, the first verifyOtp with the exact   *)
(* secret (record fresh and unexpired) succeeds and deletes the record, and *)
(* a later verifyOtp with the same secret, with no requestOtp in between,   *)
(* fails with NotFound; in all four OTP flows.                              *)
(***************************************************************************)
C1_AsStated ==
    [][resp'.op \in VerifyOps =>
       \A op \in {resp'.op}, c \in {resp'.c}, id \in {resp'.id}, cand \in {resp'.otp} :
          Verifies(op, c, id, cand) =>
              /\ FirstExact(op, id, cand) => Succeeds(resp') /\ ~HasRec(op, id)'
              /\ Consumed(op, id, cand) => NotFound(resp')]_vars

(***************************************************************************)
(* C1 amended: the first verifyOtp with the exact secret deletes the record *)
(* and succeeds when the identifier is still a registered account (always,  *)
(* in the token server and consent flows); when the account was deleted in  *)
(* between, the login flows answer 404 "not found" and leave the session as *)
(* it was.  A later verifyOtp with the same secret and no requestOtp in     *)
(* between fails with NotFound.                                             *)
(***************************************************************************)
C1_OneTimeUse ==
    [][resp'.op \in VerifyOps =>
       \A op \in {resp'.op}, c \in {resp'.c}, id \in {resp'.id}, cand \in {resp'.otp} :
          Verifies(op, c, id, cand) =>
              /\ FirstExact(op, id, cand) /\ AccountExists(op, id)
                    => Succeeds(resp') /\ ~HasRec(op, id)'
              /\ FirstExact(op, id, cand) /\ ~AccountExists(op, id)
                    => resp'.status = 404 /\ ~HasRec(op, id)' /\ session' = session
              /\ Consumed(op, id, cand) => NotFound(resp') /\ ~HasRec(op, id)']_vars

\* a second verification with the consumed secret was answered NotFound
C1_Witness ==
    /\ resp.op \in VerifyOps
    /\ Consumed(resp.op, resp.id, resp.otp)
    /\ NotFound(resp)

(***************************************************************************)
(* Attempt ceiling and expiry of the healthcare application's OTP flows.    *)
(***************************************************************************)
HcVerifyOps == VerifyOps \ {"verify_otp"}

\* a wrong candidate against a record that has not yet expired
WrongUnexpired(op, id, cand) ==
    /\ HasRec(op, id)
    /\ now <= RecExpiresAt(op, id)
    /\ ~ExactSecret(op, id, cand)

(***************************************************************************)
(* C3 as stated: with a fresh unexpired record, the N-th wrong verifyOtp    *)
(* for N < max-attempts returns Invalid and keeps the record, and the       *)
(* (max-attempts)-th wrong verifyOtp returns TooManyAttempts and deletes    *)
(* the record.                                                              *)
(***************************************************************************)
C3_AsStated ==
    [][resp'.op \in HcVerifyOps =>
       \A op \in {resp'.op}, c \in {resp'.c}, id \in {resp'.id}, cand \in {resp'.otp} :
          Verifies(op, c, id, cand) /\ WrongUnexpired(op, id, cand) =>
              /\ RecAttempts(op, id) + 1 < MAX_OTP_ATTEMPTS
                    => Invalid(resp') /\ HasRec(op, id)'
              /\ RecAttempts(op, id) + 1 = MAX_OTP_ATTEMPTS
                    => TooManyAttempts(resp') /\ ~HasRec(op, id)']_vars

(***************************************************************************)
(* C3 amended: with an unexpired record, each of the first max-attempts     *)
(* wrong verifyOtp calls returns Invalid, counts one attempt and keeps the  *)
(* record; after fewer than max-attempts wrong calls the exact secret still *)
(* succeeds (the account existing); the (max-attempts + 1)-th wrong call    *)
(* returns TooManyAttempts and deletes the record, and the verifyOtp that   *)
(* follows it returns NotFound.                                             *)
(***************************************************************************)
C3_AttemptCeiling ==
    [][resp'.op \in HcVerifyOps =>
       \A op \in {resp'.op}, c \in {resp'.c}, id \in {resp'.id}, cand \in {resp'.otp} :
          Verifies(op, c, id, cand) =>
              /\ WrongUnexpired(op, id, cand) /\ RecAttempts(op, id) < MAX_OTP_ATTEMPTS
                    => /\ Invalid(resp')
                       /\ HasRec(op, id)'
                       /\ RecAttempts(op, id)' = RecAttempts(op, id) + 1
              /\ WrongUnexpired(op, id, cand) /\ RecAttempts(op, id) = MAX_OTP_ATTEMPTS
                    => TooManyAttempts(resp') /\ ~HasRec(op, id)'
              /\ (/\ HasRec(op, id)
                  /\ now <= RecExpiresAt(op, id)
                  /\ ExactSecret(op, id, cand)
                  /\ RecAttempts(op, id) < MAX_OTP_ATTEMPTS
                  /\ AccountExists(op, id))
                    => Succeeds(resp')
              /\ resp.op = op /\ resp.id = id /\ TooManyAttempts(resp)
                    => NotFound(resp')]_vars

\* the verification after a TooManyAttempts answer found no record, all within the TTL
C3_Witness ==
    /\ resp.op \in HcVerifyOps
    /\ NotFound(resp)
    /\ now = 0
    /\ \E f \in history : f = <<"ceiling", resp.op, resp.id>>

(***************************************************************************)
(* C4: a verifyOtp made when the current time is past the record's          *)
(* expiresAt returns Expired and deletes the record, whatever the           *)
(* candidate; it never returns Invalid and never succeeds.                  *)
(***************************************************************************)
C4_ExpiryOutcome ==
    [][resp'.op \in VerifyOps =>
       \A op \in {resp'.op}, c \in {resp'.c}, id \in {resp'.id}, cand \in {resp'.otp} :
          Verifies(op, c, id, cand) /\ HasRec(op, id) /\ now > RecExpiresAt(op, id) =>
              Expired(resp') /\ ~HasRec(op, id)']_vars

(***************************************************************************)
(* SpecTok: the token server with one doctor: OTP login, protected patient  *)
(* read, logout, on either storage backend.                                 *)
(***************************************************************************)

NextTok ==
    \/ ApiRequestOtp({"dr_rao"}, {"a3f1"})
    \/ ApiVerifyOtp({"dr_rao"})
    \/ ApiGetPatient
    \/ ApiLogout
    \/ Tick(SESSION_EXPIRY_SECONDS \div 2)

SpecTok == InitIn({"api"}) /\ [][NextTok]_vars

ProtectedOps == {"get_patient", "logout"}
Revoked(jti) == <<"revoked", jti>> \in history
Accepted(rsp) == rsp.op \in ProtectedOps /\ rsp.status # 401
\* the blacklist entry of a tokenId, in whichever backend is in use
Blacklisted(jti) ==
    IF USE_REDIS THEN <<"black", jti>> \in DOMAIN r ELSE jti \in DOMAIN _session_blacklist

NextAccess ==
    \/ scenario = "consent" /\ Login({"c1"}, {"emp001"})
    \/ scenario = "consent" /\ Logout({"c1"})
    \/ scenario = "consent" /\ RequestPatientOtp({"c1"}, {"PAT0001", "PAT0002"})
    \/ scenario = "consent" /\ VerifyPatientOtp({"c1"})
    \/ scenario = "consent" /\ HcGetPatient({"c1"})
    \/ scenario = "consent" /\ RevokePatientAccess({"c1"})
    \/ scenario = "consent" /\ HcGetPatients({"c1"})
    \/ scenario = "consent" /\ ExportPatients({"c1"})
    \/ scenario = "api" /\ ApiRequestOtp({"dr_rao"}, {"a3f1"})
    \/ scenario = "api" /\ ApiVerifyOtp({"dr_rao"})
    \/ scenario = "api" /\ ApiGetPatient
    \/ scenario = "api" /\ ApiLogout
    \/ scenario = "consent" /\ Tick(PATIENT_ACCESS_SECONDS)

SpecAccess == InitIn({"consent", "api"}) /\ [][NextAccess]_vars

(***************************************************************************)
(* Vocabulary of the consent claims: the grant an operator session holds    *)
(* and the outcomes of the guard of /api/get-patient/<id>.                  *)
(***************************************************************************)
HasGrant(c) == "patient_access" \in DOMAIN session[c]
GrantSubject(c) == session[c]["patient_access"].patient_id
GrantExpiresAt(c) == FromIsoFormat(session[c]["patient_access"].expires_at)
LiveGrant(c) == HasGrant(c) /\ now <= GrantExpiresAt(c)

\* the subject a path names, when the patient exists
Names(path, subject) == \E p \in find_patient(path) : p.patient_id = subject
Subjects == {p.patient_id : p \in healthcare_data.patients}

\* the step serves a read of an existing patient by the employee session c:
\* the read that reaches the guard
GuardedRead(c, path) ==
    /\ resp'.op = "get-patient" /\ resp'.c = c /\ resp'.id = path
    /\ is_employee_session(c)
    /\ find_patient(path) # {}

\* the step serves a successful consent verification by session c
VerifiedConsent(c) ==
    resp'.op = "verify-patient-otp" /\ resp'.c = c /\ resp'.status = 200

Authorized(rsp, subject) == rsp.status = 200 /\ rsp.data = {subject}
SubjectMismatch(rsp) == rsp.status = 403 /\ rsp.error = "access_mismatch" /\ rsp.data = {}
GrantExpired(rsp) == rsp.status = 401 /\ rsp.error = "access_expired" /\ rsp.data = {}
NoGrant(rsp) == rsp.status = 401 /\ rsp.error = "access_required" /\ rsp.data = {}

(***************************************************************************)
(* C7: verifying a consent OTP requested for subject A grants the session   *)
(* A; while that grant is unexpired a read of A is Authorized and a read of *)
(* any other existing subject is rejected with access_mismatch.             *)
(***************************************************************************)
C7_GrantScope ==
    [][\A c \in {resp'.c} \cap Clients :
          /\ VerifiedConsent(c) =>
                /\ HasGrant(c)'
                /\ GrantSubject(c)' = heap[patient_otp_store[resp'.id]].patient_id
          /\ \A path \in {resp'.id} \cap PatientPaths, subject \in Subjects :
                GuardedRead(c, path) /\ LiveGrant(c) /\ Names(path, subject) =>
                    IF subject = GrantSubject(c)
                    THEN Authorized(resp', subject)
                    ELSE SubjectMismatch(resp')]_vars

\* with a live grant, a read of another existing patient was refused
C7_Witness ==
    /\ resp.op = "get-patient" /\ SubjectMismatch(resp)
    /\ resp.c \in Clients /\ LiveGrant(resp.c)
    /\ \E subject \in Subjects \ {GrantSubject(resp.c)} : Names(resp.id, subject)

(***************************************************************************)
(* C8: no operation returns a patient's record to an operator (employee     *)
(* session, or doctor with a bearer token) unless the operator's session    *)
(* holds an unexpired consent grant for that patient: single read, list,    *)
(* export and the token server's read.                                      *)
(***************************************************************************)
RecordReads == {"get-patient", "patients", "export-patients", "get_patient"}

C8_NoBypass ==
    resp.op \in RecordReads /\ resp.data # {} =>
        /\ scenario # "api"
        /\ is_employee_session(resp.c) =>
              LiveGrant(resp.c) /\ resp.data = {GrantSubject(resp.c)}

(***************************************************************************)
(* C9: a successful consent verification replaces the grant the session     *)
(* holds: the session then holds exactly the grant for the newly verified   *)
(* subject, with a fresh expiry; a read of that subject is Authorized and a *)
(* read of the subject of the replaced grant is refused with                *)
(* access_mismatch.                                                         *)
(***************************************************************************)
C9_OneGrantPerSession ==
    [][\A c \in {resp'.c} \cap Clients :
          /\ VerifiedConsent(c) =>
                session'[c]["patient_access"] =
                    [patient_id |-> heap[patient_otp_store[resp'.id]].patient_id,
                     expires_at |-> IsoFormat(now + PATIENT_ACCESS_SECONDS)]
          /\ \A path \in {resp'.id} \cap PatientPaths, subject \in Subjects :
                GuardedRead(c, path) /\ LiveGrant(c) /\ Names(path, subject) =>
                    /\ <<"granted", c, subject>> \in history => Authorized(resp', subject)
                    /\ <<"replaced", c, subject>> \in history => SubjectMismatch(resp')]_vars

\* the subject of a replaced grant was read and refused
C9_Witness ==
    /\ resp.op = "get-patient" /\ SubjectMismatch(resp)
    /\ \E subject \in Subjects :
          Names(resp.id, subject) /\ <<"replaced", resp.c, subject>> \in history

(***************************************************************************)
(* C10: no read is authorized by a grant past its expiresAt; the first read *)
(* that reaches the guard after expiry fails with access_expired and        *)
(* removes the grant, and every later such read fails with access_required  *)
(* until a new consent OTP is verified (only that creates a grant).         *)
(***************************************************************************)
C10_GrantExpiry ==
    [][\A c \in {resp'.c} \cap Clients :
          /\ \A path \in {resp'.id} \cap PatientPaths :
                GuardedRead(c, path) =>
                    /\ HasGrant(c) /\ now > GrantExpiresAt(c)
                          => GrantExpired(resp') /\ ~HasGrant(c)'
                    /\ ~HasGrant(c) => NoGrant(resp') /\ ~HasGrant(c)'
                    /\ resp'.status = 200 => LiveGrant(c)
          /\ ~HasGrant(c) /\ HasGrant(c)' => VerifiedConsent(c)]_vars

\* after the grant expired and before a new verification, a read was refused
\* with access_required
C10_Witness ==
    /\ resp.op = "get-patient" /\ NoGrant(resp)
    /\ <<"expired", resp.c>> \in history

(***************************************************************************)
(* Verification handlers step by step.  The servers handle requests in      *)
(* threads (app.run of Flask); a handler in flight holds its inputs and     *)
(* the record it read.  Its steps are the accesses to the shared store:     *)
(* read the record, check it, delete it and answer.                         *)
(***************************************************************************)
Threads == {"t1", "t2"}
ClientOf(t) == IF t = "t1" THEN "c1" ELSE "c2"

Handler(op, c, id, otp, pc, record, rec) ==
    [op |-> op, c |-> c, id |-> id, otp |-> otp, pc |-> pc, record |-> record, rec |-> rec]

\* the record objects still referred to by the store st or by a handler of ths
Collect(h, st, ths) ==
    [x \in {y \in DOMAIN h : \/ y[1] # "otp_store"
                             \/ \E k \in DOMAIN st : st[k] = y
                             \/ \E u \in DOMAIN ths : ths[u].record = y} |-> h[x]]

\* src/api/app.py api_verify_otp: rec = get_otp_record(doctor_id)
TokVerifyRead(T, D) ==
    \E t \in T \ DOMAIN threads, doctor_id \in D, otp_raw \in OtpInputs \ {""} :
        LET otp_in == Strip(otp_raw) IN
        /\ IF ~has_otp_record(doctor_id)
           THEN /\ resp' = Response("verify_otp", "-", doctor_id, otp_in, NoToken, 400,
                                    "no valid otp found for this identifier or it expired", {})
                /\ UNCHANGED threads
           ELSE /\ threads' = Put(threads, t, Handler("verify_otp", "-", doctor_id, otp_in,
                                                      "check", NoRef, get_otp_record(doctor_id)))
                /\ resp' = Idle
        /\ UNCHANGED <<scenario, providers, now, apiVars, hcVars>>
        /\ Track

\* the expiry test and the comparison of the digests
TokVerifyCheck(T) ==
    \E t \in T \cap DOMAIN threads :
        LET h == threads[t] IN
        /\ h.op = "verify_otp" /\ h.pc = "check"
        /\ IF now_ts > h.rec.expires_at
           THEN /\ IF USE_REDIS
                   THEN r' = remove_otp_redis(h.id) /\ UNCHANGED _otp_store
                   ELSE _otp_store' = remove_otp_dict(h.id) /\ UNCHANGED r
                /\ resp' = Response("verify_otp", "-", h.id, h.otp, NoToken, 400,
                                    "otp expired", {})
                /\ threads' = Pop(threads, t)
           ELSE IF h.rec.h # hash_otp(h.otp, h.rec.salt)
           THEN /\ resp' = Response("verify_otp", "-", h.id, h.otp, NoToken, 401,
                                    "invalid otp", {})
                /\ threads' = Pop(threads, t)
                /\ UNCHANGED <<r, _otp_store>>
           ELSE /\ threads' = Put(threads, t, [h EXCEPT !.pc = "remove"])
                /\ resp' = Idle
                /\ UNCHANGED <<r, _otp_store>>
        /\ UNCHANGED <<scenario, providers, now, USE_REDIS, _session_blacklist, issued, hcVars>>
        /\ Track

\* remove_otp(doctor_id); create_session_token(...); 200
TokVerifyRemove(T) ==
    \E t \in T \cap DOMAIN threads :
        LET h == threads[t]
            token == create_session_token(h.id, SESSION_EXPIRY_SECONDS)
        IN  /\ h.op = "verify_otp" /\ h.pc = "remove"
            /\ Cardinality(issued) < MaxTokens
            /\ IF USE_REDIS
               THEN r' = remove_otp_redis(h.id) /\ UNCHANGED _otp_store
               ELSE _otp_store' = remove_otp_dict(h.id) /\ UNCHANGED r
            /\ issued' = issued \cup {token}
            /\ resp' = Response("verify_otp", "-", h.id, h.otp, token, 200, "", {})
            /\ threads' = Pop(threads, t)
            /\ UNCHANGED <<scenario, providers, now, USE_REDIS, _session_blacklist, hcVars>>
            /\ Track

\* src/healthcare_app.py api_verify_otp: record = otp_store.get(identifier)
HcVerifyRead(T, I) ==
    \E t \in T \ DOMAIN threads, identifier \in I, otp \in OtpInputs \ {""} :
        /\ IF identifier \notin DOMAIN otp_store
           THEN /\ resp' = HcResponse("verify-otp", ClientOf(t), identifier, otp, 400,
                                      "no OTP requested for this identifier", {})
                /\ UNCHANGED threads
           ELSE /\ threads' = Put(threads, t, Handler("verify-otp", ClientOf(t), identifier,
                                                      otp, "check", otp_store[identifier],
                                                      NoRef))
                /\ resp' = Idle
        /\ UNCHANGED <<scenario, providers, now, apiVars, hcVars>>
        /\ Track

\* record['attempts'] += 1 is a load, an addition and a store, and nothing
\* keeps another thread from running between them: the load on its own
HcVerifyLoad(T) ==
    \E t \in T \cap DOMAIN threads :
        LET h == threads[t] IN
        /\ h.op = "verify-otp" /\ h.pc = "check"
        /\ threads' = Put(threads, t, [h EXCEPT !.pc = "loaded",
                                                !.rec = heap[h.record].attempts])
        /\ resp' = Idle
        /\ UNCHANGED <<scenario, providers, now, apiVars, hcVars>>
        /\ Track

\* record['attempts'] += 1 (in one piece, or the store of the value loaded
\* earlier plus one), the ceiling, the expiry test and the comparison
HcVerifyCheck(T) ==
    \E t \in T \cap DOMAIN threads :
        LET h == threads[t]
            record == [heap[h.record] EXCEPT
                          !.attempts = (IF h.pc = "loaded" THEN h.rec ELSE @) + 1]
            h1 == Put(heap, h.record, record)
            done == Pop(threads, t)
        IN  /\ h.op = "verify-otp" /\ h.pc \in {"check", "loaded"}
            /\ IF ExceedsCeiling(record.attempts, MAX_OTP_ATTEMPTS)
               THEN /\ otp_store' = Pop(otp_store, h.id)
                    /\ heap' = Collect(h1, otp_store', done)
                    /\ threads' = done
                    /\ resp' = HcResponse("verify-otp", h.c, h.id, h.otp, 429,
                                          "too many attempts", {})
               ELSE IF otp_expired(record)
               THEN /\ otp_store' = Pop(otp_store, h.id)
                    /\ heap' = Collect(h1, otp_store', done)
                    /\ threads' = done
                    /\ resp' = HcResponse("verify-otp", h.c, h.id, h.otp, 400,
                                          "otp expired", {})
               ELSE IF record.otp # Strip(h.otp)
               THEN /\ heap' = Collect(h1, otp_store, done)
                    /\ threads' = done
                    /\ resp' = HcResponse("verify-otp", h.c, h.id, h.otp, 400,
                                          "invalid otp", {})
                    /\ UNCHANGED otp_store
               ELSE /\ heap' = h1
                    /\ threads' = Put(threads, t, [h EXCEPT !.pc = "pop"])
                    /\ resp' = Idle
                    /\ UNCHANGED otp_store
            /\ UNCHANGED <<scenario, providers, now, apiVars, USERS, healthcare_data, patient_otp_store,
                           patient_login_otp_store, session>>
            /\ Track

\* otp_store.pop(identifier, None); the session of the caller is set; 200
HcVerifyPop(T) ==
    \E t \in T \cap DOMAIN threads :
        LET h == threads[t]
            done == Pop(threads, t)
        IN  /\ h.op = "verify-otp" /\ h.pc = "pop"
            /\ otp_store' = Pop(otp_store, h.id)
            /\ heap' = Collect(heap, otp_store', done)
            /\ threads' = done
            /\ IF h.id \notin DOMAIN USERS.employee
               THEN /\ resp' = HcResponse("verify-otp", h.c, h.id, h.otp, 404,
                                          "employee not found", {})
                    /\ UNCHANGED session
               ELSE /\ session' = [session EXCEPT ![h.c] =
                           Put(Put(Put(@, "user_type", "employee"), "username", h.id),
                               "user_data", USERS.employee[h.id])]
                    /\ resp' = HcResponse("verify-otp", h.c, h.id, h.otp, 200, "", {})
            /\ UNCHANGED <<scenario, providers, now, apiVars, USERS, healthcare_data, patient_otp_store,
                           patient_login_otp_store>>
            /\ Track

(***************************************************************************)
(* SpecConc: two verification requests in flight at once, in the token      *)
(* server and in the employee login flow.  An OTP is requested only while   *)
(* no verification is in flight.                                            *)
(***************************************************************************)

NextConc ==
    \/ scenario = "api" /\ threads = EmptyDict /\ ApiRequestOtp({"dr_rao"}, {"a3f1"})
    \/ scenario = "api" /\ TokVerifyRead(Threads, {"dr_rao"})
    \/ scenario = "api" /\ TokVerifyCheck(Threads)
    \/ scenario = "api" /\ TokVerifyRemove(Threads)
    \/ scenario = "employee_login" /\ threads = EmptyDict /\ HcRequestOtp({"c1"}, {"emp001"})
    \/ scenario = "employee_login" /\ HcVerifyRead(Threads, {"emp001"})
    \/ scenario = "employee_login" /\ HcVerifyLoad(Threads)
    \/ scenario = "employee_login" /\ HcVerifyCheck(Threads)
    \/ scenario = "employee_login" /\ HcVerifyPop(Threads)
    \/ threads = EmptyDict /\ Tick(OtpStep)

SpecConc == InitIn({"api", "employee_login"}) /\ [][NextConc]_vars

(***************************************************************************)
(* C2: of the verifyOtp calls that carry the correct secret for one stored  *)
(* record, whatever the interleaving of their read, check and delete steps, *)
(* at most one succeeds: two sessions are never issued from one OTP record. *)
(***************************************************************************)
C2_AtMostOnce == \A f \in history : f[1] # "twice"

(***************************************************************************)
(* SpecConsent: the consent manager of the healthcare app.  One browser     *)
(* session logs in as an employee, requests consent OTPs for two patients  *)
(* on one channel, verifies them, reads patients and gives the access up.   *)
(***************************************************************************)
\* one tick takes the clock past the life of every pending OTP and grant

NextConsent ==
    \/ Login({"c1"}, {"emp001"})
    \/ Logout({"c1"})
    \/ RequestPatientOtp({"c1"}, {"PAT0001", "PAT0002"})
    \/ VerifyPatientOtp({"c1"})
    \/ HcGetPatient({"c1"})
    \/ RevokePatientAccess({"c1"})
    \/ now < ConsentTicks * (PATIENT_OTP_TTL_SECONDS + 1) /\ Tick(PATIENT_OTP_TTL_SECONDS + 1)

SpecConsent == InitIn({"consent_requests"}) /\ [][NextConsent]_vars

Surrendered(c) == <<"surrendered", c>> \in history

(***************************************************************************)
(* C11: revoke-patient-access is idempotent.  Called by an employee         *)
(* session it answers success whether or not a grant was held, leaves the   *)
(* session without a grant and otherwise as it was, a call repeated right   *)
(* after a successful one changes nothing, and until the session verifies   *)
(* a consent OTP again every guarded read answers "access_required".        *)
(***************************************************************************)
C11_RevokeIdempotent ==
    [][\A c \in {resp'.c} :
          /\ resp'.op = "revoke-patient-access" /\ is_employee_session(c) =>
                /\ resp'.status = 200 /\ resp'.error = ""
                /\ ~HasGrant(c)'
                /\ DOMAIN session'[c] = DOMAIN session[c] \ {"patient_access"}
                /\ \A k \in DOMAIN session'[c] : session'[c][k] = session[c][k]
                /\ Surrendered(c) => session' = session
                /\ UNCHANGED <<patient_otp_store, heap, healthcare_data>>
          /\ \A path \in {resp'.id} :
                GuardedRead(c, path) /\ Surrendered(c) =>
                    NoGrant(resp') /\ session' = session]_vars

\* a guarded read is refused after the session gave up a grant it held and
\* then called revoke once more
C11_Witness ==
    /\ resp.op = "get-patient" /\ NoGrant(resp)
    /\ <<"surrendered-again", resp.c>> \in history
    /\ is_employee_session(resp.c)

StoredSubject(phone) == heap[patient_otp_store[phone]].patient_id

(***************************************************************************)
(* C12: the subject of a grant is the one stored with the consumed OTP      *)
(* record.  An accepted /api/request-patient-otp stores the patient_id it   *)
(* was given with the record of the channel, replacing the record of any    *)
(* earlier request; no other step changes the patient_id stored for a       *)
(* channel; a successful /api/verify-patient-otp grants the session the     *)
(* patient_id of the record it consumes, whatever candidate and earlier     *)
(* grant the session presents.  So after a later request for another        *)
(* subject overwrote the record, the grant is for the later subject.        *)
(***************************************************************************)
C12_GrantSubjectFromRecord ==
    [][\A c \in {resp'.c}, phone \in {resp'.id} :
          /\ resp'.op = "request-patient-otp" /\ resp'.status = 200 =>
                /\ phone \in DOMAIN patient_otp_store'
                /\ resp'.data = {StoredSubject(phone)'}
          /\ \A k \in Phones :
                (k \in DOMAIN patient_otp_store /\ k \in DOMAIN patient_otp_store'
                   /\ StoredSubject(k)' # StoredSubject(k)) =>
                     resp'.op = "request-patient-otp" /\ resp'.status = 200 /\ k = phone
          /\ VerifiedConsent(c) =>
                /\ phone \in DOMAIN patient_otp_store
                /\ HasGrant(c)'
                /\ GrantSubject(c)' = StoredSubject(phone)
                /\ \A f \in history :
                      f[1] = "overwrote" /\ f[2] = phone => GrantSubject(c)' # f[3]]_vars

\* consent is verified on a channel whose record, requested for one subject,
\* was overwritten by a request for another, by a session that held a grant
\* for yet another subject than the one it is granted now
C12_Witness ==
    /\ resp.op = "verify-patient-otp" /\ resp.status = 200
    /\ HasGrant(resp.c) /\ GrantSubject(resp.c) \in resp.data
    /\ \E f \in history : /\ f[1] = "passed-over" /\ f[2] = resp.c
                           /\ f[3] # GrantSubject(resp.c)
    /\ \E f \in history : f[1] = "replaced" /\ f[2] = resp.c

(***************************************************************************)
(* SpecAudit: the four OTP engines, each with one identifier, with the      *)
(* secrets delivered and superseded and the candidates refused on record.   *)
(* The consent engine is called without a session, by an employee session   *)
(* and by a patient session, for an existing and for an unknown patient.    *)
(***************************************************************************)

NextAudit ==
    \/ scenario = "api_audit" /\ ApiRequestOtp({"dr_rao"}, {"a3f1"})
    \/ scenario = "api_audit" /\ ApiVerifyOtp({"dr_rao"})
    \/ scenario = "employee_login_audit" /\ HcRequestOtp({"c1"}, {"emp001"})
    \/ scenario = "employee_login_audit" /\ HcVerifyOtp({"c1"}, {"emp001"})
    \/ scenario = "patient_login_audit" /\ RequestPatientLoginOtp({"c1"}, {"pat001"})
    \/ scenario = "patient_login_audit" /\ VerifyPatientLoginOtp({"c1"}, {"pat001"})
    \/ scenario = "consent_audit" /\ Login({"c1"}, {"emp001", "pat001"})
    \/ scenario = "consent_audit" /\ Logout({"c1"})
    \/ scenario = "consent_audit" /\ RequestPatientOtp({"c1"}, {"PAT0001", "PAT0404"})
    \/ scenario = "consent_audit" /\ VerifyPatientOtp({"c1"})
    \/ Tick(IF scenario = "api_audit" THEN OTP_VALIDITY_SECONDS ELSE OTP_TTL_SECONDS)

SpecAudit == InitIn(AuditScenarios) /\ [][NextAudit]_vars

Sent(op, id, secret) == <<"sent", op, id, secret>> \in history
Superseded(op, id, secret) == <<"superseded", op, id, secret>> \in history

(***************************************************************************)
(* C13: a request overwrites the record of the identifier.  An accepted     *)
(* request leaves the identifier with one record, fresh and holding the     *)
(* secret just delivered; and while that record is unexpired and below the  *)
(* attempt ceiling, a verification with the secret of the request it        *)
(* replaced answers "invalid otp" and keeps the record, and a verification  *)
(* with the secret delivered last succeeds and consumes the record.         *)
(***************************************************************************)
C13_OverwriteOnReRequest ==
    [][\A op \in {resp'.op}, c \in {resp'.c}, id \in {resp'.id}, cand \in {resp'.otp} :
          /\ op \in RequestOps /\ resp'.status = 200 =>
                /\ HasRec(VerifyOf(op), id)'
                /\ ExactSecret(VerifyOf(op), id, cand)'
                /\ RecAttempts(VerifyOf(op), id)' = 0
                /\ now < RecExpiresAt(VerifyOf(op), id)'
          /\ (/\ op \in VerifyOps /\ Verifies(op, c, id, cand)
              /\ HasRec(op, id)
              /\ now < RecExpiresAt(op, id)
              /\ RecAttempts(op, id) < MAX_OTP_ATTEMPTS) =>
                /\ Superseded(op, id, Strip(cand)) => Invalid(resp') /\ HasRec(op, id)'
                /\ Sent(op, id, Strip(cand)) => Succeeds(resp') /\ ~HasRec(op, id)']_vars

\* the secret delivered last is accepted after the secret of the request it
\* replaced was refused
C13_Witness ==
    /\ resp.op \in VerifyOps /\ Succeeds(resp)
    /\ Superseded(resp.op, resp.id, Strip(resp.otp)) = FALSE
    /\ \E f \in history :
          /\ f[1] = "superseded" /\ f[2] = resp.op /\ f[3] = resp.id
          /\ <<"refused", resp.op, resp.id, f[4]>> \in history

(***************************************************************************)
(* C14: lockout of the consent OTP.  When /api/verify-patient-otp answers   *)
(* "too many attempts" the record of the channel is deleted and the session *)
(* is left as it was, with no new grant; from then on, until a consent OTP  *)
(* is requested for the channel again, a verification on the channel, with  *)
(* the code that was delivered included, answers "otp not requested for     *)
(* this phone" and grants nothing.                                          *)
(***************************************************************************)
C14_ConsentLockout ==
    [][\A op \in {"verify-patient-otp"} \cap {resp'.op},
          c \in {resp'.c}, id \in {resp'.id}, cand \in {resp'.otp} :
          /\ TooManyAttempts(resp') =>
                /\ HasRec(op, id) /\ ~HasRec(op, id)'
                /\ session' = session
          /\ Verifies(op, c, id, cand) /\ <<"ceiling", op, id>> \in history =>
                /\ NotFound(resp')
                /\ ~HasRec(op, id) /\ ~HasRec(op, id)'
                /\ session' = session]_vars

\* after the lockout the code that was delivered is presented and answered
\* as not requested
C14_Witness ==
    /\ resp.op = "verify-patient-otp" /\ NotFound(resp)
    /\ <<"ceiling", resp.op, resp.id>> \in history
    /\ Sent(resp.op, resp.id, Strip(resp.otp))

HoldsEmployeeSession(c) ==
    "user_type" \in DOMAIN session[c] /\ session[c]["user_type"] = "employee"

(***************************************************************************)
(* C15: preconditions of the consent OTP.  /api/request-patient-otp creates *)
(* or overwrites the record of a channel only when the caller holds an      *)
(* employee session and the patient_id it names exists; when either check   *)
(* fails it answers an error (403, 404) and leaves the consent OTP store,   *)
(* the records in it and every session as they were.                        *)
(* /api/verify-patient-otp without an employee session answers 403 and      *)
(* likewise leaves the store, the attempts of the record and every session  *)
(* as they were.                                                            *)
(***************************************************************************)
C15_ConsentPreconditions ==
    [][\A c \in {resp'.c} :
          /\ resp'.op = "request-patient-otp" =>
                /\ <<patient_otp_store, heap>>' # <<patient_otp_store, heap>> =>
                      /\ HoldsEmployeeSession(c)
                      /\ resp'.status = 200
                      /\ resp'.data \subseteq Subjects /\ resp'.data # {}
                /\ ~HoldsEmployeeSession(c) => resp'.status = 403
                /\ resp'.status # 200 =>
                      /\ resp'.status \in {400, 403, 404}
                      /\ UNCHANGED <<patient_otp_store, heap, session>>
                /\ resp'.status = 200 => UNCHANGED session
          /\ resp'.op = "verify-patient-otp" /\ ~HoldsEmployeeSession(c) =>
                /\ resp'.status = 403
                /\ UNCHANGED <<patient_otp_store, heap, session>>]_vars

\* a patient session, with a consent record pending on the channel, is refused
\* a verification of it
C15_Witness ==
    /\ resp.op = "verify-patient-otp" /\ resp.status = 403
    /\ "user_type" \in DOMAIN session[resp.c] /\ session[resp.c]["user_type"] = "patient"
    /\ HasRec(resp.op, resp.id)
    /\ ExactSecret(resp.op, resp.id, resp.otp)

\* the OTP login flows: token server, employee login, patient login
LoginRequestOps == {"request_otp", "request-otp", "request-patient-login-otp"}
LoginVerifyOps == {"verify_otp", "verify-otp", "verify-patient-login-otp"}
\* the session fields user_type / username name the subject
SessionOf(sess, user_type, username) ==
    /\ {"user_type", "username"} \subseteq DOMAIN sess
    /\ sess["user_type"] = user_type /\ sess["username"] = username

(***************************************************************************)
(* C16: in the OTP login flows a session comes only from a successful       *)
(* verification.  A request of an OTP and every failing verification        *)
(* (not found, expired, invalid, too many attempts, missing input, account  *)
(* gone) mint no token and leave every server session as it was; a          *)
(* successful verification for identifier X mints exactly one token, whose  *)
(* subject is X, or sets user_type and username of the calling session to   *)
(* the flow's user type and X and leaves the other sessions as they were.   *)
(***************************************************************************)
C16_SessionsFromVerification ==
    [][\A op \in {resp'.op}, c \in {resp'.c}, id \in {resp'.id} :
          /\ op \in LoginRequestOps => issued' = issued /\ session' = session
          /\ op \in LoginVerifyOps /\ ~Succeeds(resp') =>
                /\ issued' = issued /\ session' = session
                /\ resp'.tok = NoToken
          /\ op = "verify_otp" /\ Succeeds(resp') =>
                /\ resp'.tok \notin issued
                /\ issued' = issued \cup {resp'.tok}
                /\ resp'.tok.payload.sub = id
                /\ session' = session
          /\ op \in {"verify-otp", "verify-patient-login-otp"} /\ Succeeds(resp') =>
                /\ SessionOf(session'[c],
                             IF op = "verify-otp" THEN "employee" ELSE "patient", id)
                /\ \A c2 \in Clients \ {c} : session'[c2] = session[c2]
                /\ issued' = issued
          /\ issued' # issued => op = "verify_otp" /\ Succeeds(resp')]_vars

\* a wrong candidate was refused while a session of another subject existed:
\* a token of the other doctor, or the administrator's server session
C16_Witness ==
    /\ resp.op \in LoginVerifyOps /\ Invalid(resp)
    /\ \/ \E t \in issued : t.payload.sub # resp.id
       \/ resp.op # "verify_otp" /\ SessionOf(session[resp.c], "employee", "admin")

(***************************************************************************)
(* SpecValidate: decode_token_and_validate step by step.  jwt.decode reads  *)
(* the clock when it checks the exp claim, and is_blacklisted reads it      *)
(* again, later, when it looks the tokenId up; the handler of the patient   *)
(* read is in flight between the two, and the clock may advance.            *)
(***************************************************************************)
\* the header checks and jwt.decode of decode_token_and_validate
ValidateDecode(T) ==
    \E t \in T \ DOMAIN threads, auth_header \in Headers, patient_id \in PATIENT_DB :
        LET v == IF auth_header.kind = "missing" THEN "missing authorization header"
                 ELSE IF auth_header.kind # "bearer" THEN "invalid authorization header"
                 ELSE jwt_decode(auth_header.token)
        IN  /\ IF v # "ok"
               THEN /\ resp' = Response("get_patient", "-", patient_id, "",
                                        auth_header.token, 401, v, {})
                    /\ UNCHANGED threads
               ELSE /\ threads' = Put(threads, t,
                                      Handler("get_patient", "-", patient_id, "",
                                              "is_blacklisted", NoRef, auth_header.token))
                    /\ resp' = Idle
            /\ UNCHANGED <<scenario, providers, now, apiVars, hcVars>>
            /\ Track

\* is_blacklisted(jti), then the lookup in PATIENT_DB and the answer
ValidateBlacklist(T) ==
    \E t \in T \cap DOMAIN threads :
        LET h == threads[t]
            jti == h.rec.payload.jti
        IN  /\ h.op = "get_patient" /\ h.pc = "is_blacklisted"
            /\ _session_blacklist' = is_blacklisted_dict_after(jti)
            /\ resp' = IF is_blacklisted(jti)
                       THEN Response("get_patient", "-", h.id, "", h.rec, 401,
                                     "session invalidated", {})
                       ELSE Response("get_patient", "-", h.id, "", h.rec, 200, "", {h.id})
            /\ threads' = Pop(threads, t)
            /\ UNCHANGED <<scenario, providers, now, USE_REDIS, r, _otp_store, issued, hcVars>>
            /\ Track

NextValidate ==
    \/ threads = EmptyDict /\ ApiRequestOtp({"dr_rao"}, {"a3f1"})
    \/ threads = EmptyDict /\ ApiVerifyOtp({"dr_rao"})
    \/ ApiLogout
    \/ ValidateDecode({"t1"})
    \/ ValidateBlacklist({"t1"})
    \/ Tick(SESSION_EXPIRY_SECONDS)

SpecValidate == InitIn({"api"}) /\ [][NextValidate]_vars

(***************************************************************************)
(* C17: a revoked token is never accepted again.  Once logout has revoked   *)
(* a minted token, every later answer of a protected endpoint to that       *)
(* token is 401: "session invalidated" while the clock is before the exp    *)
(* claim of the token, "token expired" from then on.                        *)
(***************************************************************************)
C17_RevokedNeverAccepted ==
    [][resp'.op \in ProtectedOps /\ resp'.tok \in issued
          /\ Revoked(resp'.tok.payload.jti) =>
              /\ resp'.status = 401
              /\ now' < resp'.tok.payload.exp => resp'.error = "session invalidated"
              /\ now' >= resp'.tok.payload.exp => resp'.error = "token expired"]_vars

\* the tokenIds that have an entry in the blacklist of the backend in use
BlacklistEntries ==
    IF USE_REDIS THEN {k[2] : k \in {x \in DOMAIN r : x[1] = "black"}}
    ELSE DOMAIN _session_blacklist

(***************************************************************************)
(* C18: the blacklist holds entries of live tokens only.  On either         *)
(* backend no entry is in storage once the clock is past the exp claim of   *)
(* its token, so there are never more entries than revoked tokens whose     *)
(* exp claim the clock has not passed.                                      *)
(***************************************************************************)
C18_BlacklistBounded ==
    /\ \A jti \in BlacklistEntries :
          \E t \in issued : /\ t.payload.jti = jti /\ Revoked(jti)
                            /\ now <= t.payload.exp
    /\ Cardinality(BlacklistEntries)
          <= Cardinality({t \in issued : Revoked(t.payload.jti) /\ now <= t.payload.exp})

\* the time at which the entry of a tokenId ends
EntryExpiry(jti) ==
    IF USE_REDIS THEN r[<<"black", jti>>].expireat ELSE _session_blacklist[jti]

(***************************************************************************)
(* C19: a blacklist entry ends when its token does.  Every entry in         *)
(* storage, on either backend, belongs to a minted token that logout        *)
(* revoked, and its expiry is the exp claim of that token, whenever the     *)
(* logout took place.                                                       *)
(***************************************************************************)
C19_EntryExpiryIsTokenExp ==
    \A jti \in BlacklistEntries :
        \E t \in issued :
            /\ t.payload.jti = jti /\ Revoked(jti)
            /\ EntryExpiry(jti) = t.payload.exp
            /\ EntryExpiry(jti) = t.payload.iat + SESSION_EXPIRY_SECONDS

\* a token is logged out some time after it was minted
C19_Witness ==
    /\ resp.op = "logout" /\ resp.status = 200
    /\ resp.tok.payload.iat < now
    /\ resp.tok.payload.jti \in BlacklistEntries

\* the number of wrong candidates the pending record of an identifier has been
\* compared with, counted up to one past the ceiling
WrongCandidates(op, id) ==
    IF \E n \in 1..(MAX_OTP_ATTEMPTS + 1) : <<"wrong", op, id, n>> \in history
    THEN CHOOSE n \in 1..(MAX_OTP_ATTEMPTS + 1) : <<"wrong", op, id, n>> \in history
    ELSE 0

(***************************************************************************)
(* C20: every OTP engine enforces the attempt ceiling.  In each entry point *)
(* a pending record is compared with at most MAX_OTP_ATTEMPTS wrong         *)
(* candidates, and once it has been compared with that many a verification  *)
(* is neither answered "invalid otp" again nor, with the correct secret,    *)
(* successful.                                                              *)
(***************************************************************************)
C20_AttemptLimitEverywhere ==
    [][\A op \in VerifyOps \cap {resp'.op}, c \in {resp'.c}, id \in {resp'.id},
          cand \in {resp'.otp} :
          /\ WrongCandidates(op, id)' <= MAX_OTP_ATTEMPTS
          /\ (/\ Verifies(op, c, id, cand) /\ HasRec(op, id)
              /\ WrongCandidates(op, id) >= MAX_OTP_ATTEMPTS) =>
                ~Succeeds(resp') /\ ~Invalid(resp')]_vars

(***************************************************************************)
(* Expiry against absence, in SpecOtp.                                      *)
(***************************************************************************)
\* the outcome of a verification for an identifier without a record
AbsentOutcome(rsp) == NotFound(rsp) /\ rsp.status = 400

otp_record_in(redis, doctor_id) ==
    IF redis
    THEN IF <<"otp", doctor_id>> \in DOMAIN r
         THEN LET data == r[<<"otp", doctor_id>>].value
              IN  {[data EXCEPT !.expires_at = ToInt(data.expires_at)]}
         ELSE {}
    ELSE IF <<"otp", doctor_id>> \in DOMAIN _otp_store
         THEN {_otp_store[<<"otp", doctor_id>>]}
         ELSE {}

\* the status and error of api_verify_otp on the given backend
verify_otp_in(redis, doctor_id, otp_in) ==
    LET found == otp_record_in(redis, doctor_id)
        rec == CHOOSE x \in found : TRUE
    IN  IF doctor_id = "" \/ otp_in = ""
        THEN [status |-> 400, error |-> "doctor_id and otp required"]
        ELSE IF found = {}
        THEN [status |-> 400,
              error |-> "no valid otp found for this identifier or it expired"]
        ELSE IF now_ts > rec.expires_at
        THEN [status |-> 400, error |-> "otp expired"]
        ELSE IF rec.h # hash_otp(otp_in, rec.salt)
        THEN [status |-> 401, error |-> "invalid otp"]
        ELSE [status |-> 200, error |-> ""]

\* decode_token_and_validate on the given backend
validate_in(redis, auth_header) ==
    IF auth_header.kind = "missing" THEN "missing authorization header"
    ELSE IF auth_header.kind # "bearer" THEN "invalid authorization header"
    ELSE IF jwt_decode(auth_header.token) # "ok" THEN jwt_decode(auth_header.token)
    ELSE IF redis
    THEN IF <<"black", auth_header.token.payload.jti>> \in DOMAIN r
         THEN "session invalidated" ELSE "ok"
    ELSE LET jti == auth_header.token.payload.jti IN
         IF /\ jti \in DOMAIN _session_blacklist
            /\ _session_blacklist[jti] # 0
            /\ ~(now_ts >= _session_blacklist[jti])
         THEN "session invalidated" ELSE "ok"

\* the answers of the two deployments to one call
Both(local, shared) == local @@ [shared |-> shared]

SwapRequestOtp(D, S) ==
    \E doctor_id \in D \cup {""}, otp \in OtpCodes, salt \in S :
        /\ IF doctor_id = ""
           THEN /\ resp' = Both(Response("request_otp", "-", doctor_id, "", NoToken, 400,
                                         "doctor_id required", {}),
                                Response("request_otp", "-", doctor_id, "", NoToken, 400,
                                         "doctor_id required", {}))
                /\ UNCHANGED <<r, _otp_store>>
           ELSE /\ _otp_store' = store_otp_dict(doctor_id, otp, salt, OTP_VALIDITY_SECONDS)
                /\ r' = store_otp_redis(doctor_id, otp, salt, OTP_VALIDITY_SECONDS)
                /\ resp' = Both(Response("request_otp", "-", doctor_id, otp, NoToken, 200, "", {}),
                                Response("request_otp", "-", doctor_id, otp, NoToken, 200, "", {}))
        /\ UNCHANGED <<scenario, providers, now, USE_REDIS, _session_blacklist, issued, hcVars,
                       threads, history>>

SwapVerifyOtp(D) ==
    \E doctor_id \in D \cup {""}, otp_raw \in OtpInputs :
        LET otp_in == Strip(otp_raw)
            local == verify_otp_in(FALSE, doctor_id, otp_in)
            shared == verify_otp_in(TRUE, doctor_id, otp_in)
            token == create_session_token(doctor_id, SESSION_EXPIRY_SECONDS)
            Answer(o) == Response("verify_otp", "-", doctor_id, otp_in,
                                  IF o.status = 200 THEN token ELSE NoToken,
                                  o.status, o.error, {})
        IN  /\ _otp_store' = IF local.error \in {"otp expired", ""}
                             THEN remove_otp_dict(doctor_id) ELSE _otp_store
            /\ r' = IF shared.error \in {"otp expired", ""}
                    THEN remove_otp_redis(doctor_id) ELSE r
            /\ IF local.status = 200 \/ shared.status = 200
               THEN Cardinality(issued) < MaxTokens /\ issued' = issued \cup {token}
               ELSE UNCHANGED issued
            /\ resp' = Both(Answer(local), Answer(shared))
            /\ UNCHANGED <<scenario, providers, now, USE_REDIS, _session_blacklist, hcVars,
                           threads, history>>

SwapGetPatient ==
    \E auth_header \in Headers, patient_id \in PATIENT_DB :
        LET Answer(v) ==
                IF v # "ok"
                THEN Response("get_patient", "-", patient_id, "", auth_header.token, 401, v, {})
                ELSE Response("get_patient", "-", patient_id, "", auth_header.token, 200, "",
                              {patient_id})
        IN  /\ _session_blacklist' = validate_dict_after(auth_header)
            /\ resp' = Both(Answer(validate_in(FALSE, auth_header)),
                            Answer(validate_in(TRUE, auth_header)))
            /\ UNCHANGED <<scenario, providers, now, USE_REDIS, r, _otp_store, issued, hcVars,
                           threads, history>>

SwapLogout ==
    \E auth_header \in Headers :
        LET local == validate_in(FALSE, auth_header)
            shared == validate_in(TRUE, auth_header)
            checked == validate_dict_after(auth_header)
            payload == auth_header.token.payload
            Answer(v) ==
                IF v # "ok"
                THEN Response("logout", "-", "", "", auth_header.token, 401, v, {})
                ELSE Response("logout", "-", "", "", auth_header.token, 200, "", {})
        IN  /\ _session_blacklist' =
                   IF local = "ok" THEN blacklist_session_dict(checked, payload.jti, payload.exp)
                   ELSE checked
            /\ r' = IF shared = "ok" THEN blacklist_session_redis(payload.jti, payload.exp)
                    ELSE r
            /\ resp' = Both(Answer(local), Answer(shared))
            /\ UNCHANGED <<scenario, providers, now, USE_REDIS, _otp_store, issued, hcVars,
                           threads, history>>

NextSwap ==
    \/ SwapRequestOtp({"dr_rao"}, {"a3f1"})
    \/ SwapVerifyOtp({"dr_rao"})
    \/ SwapGetPatient
    \/ SwapLogout
    \/ Tick(OTP_VALIDITY_SECONDS)

SpecSwap == InitIn({"api_swap"}) /\ [][NextSwap]_vars

(***************************************************************************)
(* C22: backend-swap transparency.  For every sequence of request-otp,      *)
(* verify-otp, logout and validate calls and clock advances, the token      *)
(* server returns the same outcomes with the in-process dictionaries as     *)
(* with the shared Redis store, including at and after the record's or      *)
(* entry's expiresAt: each call has the same status and error in the two   *)
(* deployments.                                                             *)
(***************************************************************************)
C22_BackendSwap ==
    resp.op # "idle" =>
        /\ resp.status = resp.shared.status
        /\ resp.error = resp.shared.error

(***************************************************************************)
(* SpecSelf: a patient (client c1) logs in with the password or the login   *)
(* OTP and reads patient records; the administrator (client c2) may delete  *)
(* the patient's record meanwhile.                                          *)
(***************************************************************************)
NextSelf ==
    \/ Login({"c1"}, {"pat001"})
    \/ Login({"c2"}, {"admin"})
    \/ RequestPatientLoginOtp({"c1"}, {"pat001"})
    \/ VerifyPatientLoginOtp({"c1"}, {"pat001"})
    \/ Logout({"c1"})
    \/ HcGetPatient({"c1"})
    \/ HcGetPatients({"c1"})
    \/ PatientMe({"c1"})
    \/ DeletePatient({"c2"})

SpecSelf == InitIn({"self"}) /\ [][NextSelf]_vars

PatientReads == {"get-patient", "patients", "patient-me"}
HoldsPatientSession(c) ==
    "user_type" \in DOMAIN session[c] /\ session[c]["user_type"] = "patient"
\* the records whose id is the patient id of the session
OwnRecords(c) ==
    {p.patient_id : p \in {q \in healthcare_data.patients :
                              q.id = session[c]["user_data"].patient_id}}
\* the records a path of /api/get-patient/<id> names
NamedRecords(path) ==
    {p.patient_id : p \in {q \in healthcare_data.patients :
                              q.patient_id = path \/ str(q.id) = path}}

(***************************************************************************)
(* C23: self-access.  A patient session is given a patient record only when *)
(* the session's own patient id matches that record: a read of the own      *)
(* record returns it, a read of any other existing patient's record is      *)
(* rejected as Forbidden (403), and the patient list and /api/patient/me    *)
(* return at most the patient's own record.                                 *)
(***************************************************************************)
C23_SelfAccess ==
    resp.op \in PatientReads /\ HoldsPatientSession(resp.c) =>
        /\ resp.data \subseteq OwnRecords(resp.c)
        /\ resp.op = "get-patient" /\ NamedRecords(resp.id) # {} =>
              IF NamedRecords(resp.id) = OwnRecords(resp.c)
              THEN resp.status = 200 /\ resp.data = OwnRecords(resp.c)
              ELSE resp.status = 403 /\ resp.error = "Unauthorized" /\ resp.data = {}
        /\ resp.op # "get-patient" =>
              resp.status = 200 /\ Cardinality(resp.data) <= 1

\* the patient asked for another existing patient's record and was refused
C23_Witness ==
    /\ resp.op = "get-patient"
    /\ HoldsPatientSession(resp.c)
    /\ NamedRecords(resp.id) # {}
    /\ NamedRecords(resp.id) # OwnRecords(resp.c)
    /\ OwnRecords(resp.c) # {}
    /\ resp.status = 403

(***************************************************************************)
(* SpecLin: an OTP request served while a verification for the same         *)
(* identifier is in flight, in the token server (both backends) and in the  *)
(* employee login flow.  The secrets sent and superseded are recorded.      *)
(***************************************************************************)
NextLin ==
    \/ scenario = "api_audit" /\ ApiRequestOtp({"dr_rao"}, {"a3f1"})
    \/ scenario = "api_audit" /\ TokVerifyRead({"t1"}, {"dr_rao"})
    \/ scenario = "api_audit" /\ TokVerifyCheck({"t1"})
    \/ scenario = "api_audit" /\ TokVerifyRemove({"t1"})
    \/ scenario = "employee_login_audit" /\ HcRequestOtp({"c1"}, {"emp001"})
    \/ scenario = "employee_login_audit" /\ HcVerifyRead({"t1"}, {"emp001"})
    \/ scenario = "employee_login_audit" /\ HcVerifyCheck({"t1"})
    \/ scenario = "employee_login_audit" /\ HcVerifyPop({"t1"})
    \/ threads = EmptyDict /\ Tick(IF scenario = "api_audit" THEN OTP_VALIDITY_SECONDS ELSE OTP_TTL_SECONDS)

SpecLin == InitIn({"api_audit", "employee_login_audit"}) /\ [][NextLin]_vars

(***************************************************************************)
(* C24: per-identifier OTP transitions are linearizable.  For a requestOtp  *)
(* and a verifyOtp on the same identifier the results and the final store   *)
(* are those of one of the two sequential orders: a verifyOtp that succeeds *)
(* with a secret the requestOtp has superseded took effect before the       *)
(* request, so the record the request stored is still there when the        *)
(* verification answers; it does not both succeed with the superseded       *)
(* secret and delete the new record.                                        *)
(***************************************************************************)
C24_Linearizable ==
    [][resp'.op \in {"verify_otp", "verify-otp"} =>
       \A op \in {resp'.op}, id \in {resp'.id}, cand \in {resp'.otp} :
          Succeeds(resp') /\ Superseded(op, id, Strip(cand)) => HasRec(op, id)']_vars

(***************************************************************************)
(* C25: lazy expiry is sufficient.  In SpecOtp the cleanup tasks are steps  *)
(* that may be taken at any point or never.  Whether or not a sweep ran, a  *)
(* verifyOtp made when the current time is past the record's expiresAt      *)
(* never succeeds: it creates no session, grant or token, and the record is *)
(* gone afterwards.                                                         *)
(***************************************************************************)
C25_LazyExpiry ==
    [][resp'.op \in VerifyOps =>
       \A op \in {resp'.op}, c \in {resp'.c}, id \in {resp'.id}, cand \in {resp'.otp} :
          Verifies(op, c, id, cand) /\ HasRec(op, id) /\ now > RecExpiresAt(op, id) =>
              /\ resp'.status # 200
              /\ session' = session
              /\ issued' = issued
              /\ ~HasRec(op, id)']_vars

\* a verification met a record past its expiry that no sweep had removed,
\* and refused it
C25_Witness ==
    /\ resp.op \in HcVerifyOps
    /\ resp.status = 400
    /\ resp.error = "otp expired"
    /\ now > OtpStep

(***************************************************************************)
(* SpecGrant: two consent verifications of one operator session in flight   *)
(* at once.  The Flask session is a signed cookie: a handler works on the   *)
(* session its request carried, and the client holds the session of the     *)
(* response it received last.  A handler reads the OTP record, then checks  *)
(* it, reads the clock, assigns session['patient_access'], pops the record  *)
(* and answers.                                                             *)
(***************************************************************************)
\* /api/request-patient-otp on the channels Ph, generating a code of O
RequestConsentOtp(C, Ph, P, O) ==
    \E c \in C, phone \in Ph, patient_id \in P, otp \in O :
        /\ api_request_patient_otp(c, phone, patient_id, otp)
        /\ UNCHANGED <<scenario, providers, now, apiVars, USERS, healthcare_data, otp_store,
                       patient_login_otp_store, session, threads>>
        /\ Track

\* api_verify_patient_otp up to record = patient_otp_store.get(phone)
ConsentVerifyRead(T, C, Ph, O) ==
    \E t \in T \ DOMAIN threads, c \in C, phone \in Ph, otp \in O :
        /\ IF ~is_employee_session(c)
           THEN /\ resp' = HcResponse("verify-patient-otp", c, phone, otp, 403,
                                      "unauthorized", {})
                /\ UNCHANGED threads
           ELSE IF phone \notin DOMAIN patient_otp_store
           THEN /\ resp' = HcResponse("verify-patient-otp", c, phone, otp, 400,
                                      "otp not requested for this phone", {})
                /\ UNCHANGED threads
           ELSE /\ threads' = Put(threads, t,
                                  Handler("verify-patient-otp", c, phone, otp, "check",
                                          patient_otp_store[phone], session[c]))
                /\ resp' = Idle
        /\ UNCHANGED <<scenario, providers, now, apiVars, hcVars>>
        /\ Track

\* the expiry test, the comparison, the grant, the pop and the answer
ConsentVerifyFinish(T) ==
    \E t \in T \cap DOMAIN threads :
        LET h == threads[t]
            record == heap[h.record]
            bumped == [record EXCEPT !.attempts = @ + 1]
            done == Pop(threads, t)
            popped == Pop(patient_otp_store, h.id)
            Live(hp, st) ==
                [x \in {y \in DOMAIN hp : \/ \E k \in DOMAIN st : st[k] = y
                                          \/ \E u \in DOMAIN done : done[u].record = y}
                    |-> hp[x]]
        IN  /\ h.op = "verify-patient-otp" /\ h.pc = "check"
            /\ threads' = done
            /\ IF otp_expired(record)
               THEN /\ patient_otp_store' = popped
                    /\ heap' = Live(heap, popped)
                    /\ resp' = HcResponse("verify-patient-otp", h.c, h.id, h.otp, 400,
                                          "otp expired", {})
                    /\ UNCHANGED session
               ELSE IF record.otp # Strip(h.otp)
               THEN IF ExceedsCeiling(bumped.attempts, 5)
                    THEN /\ patient_otp_store' = popped
                         /\ heap' = Live(Put(heap, h.record, bumped), popped)
                         /\ resp' = HcResponse("verify-patient-otp", h.c, h.id, h.otp, 429,
                                               "too many attempts", {})
                         /\ UNCHANGED session
                    ELSE /\ heap' = Live(Put(heap, h.record, bumped), patient_otp_store)
                         /\ resp' = HcResponse("verify-patient-otp", h.c, h.id, h.otp, 400,
                                               "invalid otp", {})
                         /\ UNCHANGED <<patient_otp_store, session>>
               ELSE /\ session' = [session EXCEPT ![h.c] = grant_access(h.rec, record.patient_id)]
                    /\ patient_otp_store' = popped
                    /\ heap' = Live(heap, popped)
                    /\ resp' = HcResponse("verify-patient-otp", h.c, h.id, h.otp, 200, "",
                                          {record.patient_id})
            /\ UNCHANGED <<scenario, providers, now, apiVars, USERS, healthcare_data, otp_store,
                           patient_login_otp_store>>
            /\ Track

NextGrant ==
    \/ Login({"c1"}, {"emp001"})
    \/ RequestConsentOtp({"c1"}, {"+1-555-0100"}, {"PAT0001"}, {"483920"})
    \/ RequestConsentOtp({"c1"}, {"+1-555-0101"}, {"PAT0002"}, {"117305"})
    \/ ConsentVerifyRead({"t1"}, {"c1"}, {"+1-555-0100"}, {"483920", " 483920 "})
    \/ ConsentVerifyRead({"t2"}, {"c1"}, {"+1-555-0101"}, {"117305"})
    \/ ConsentVerifyFinish(Threads)
    \/ threads # EmptyDict /\ Tick(PATIENT_ACCESS_SECONDS \div 2)

SpecGrant == InitIn({"consent_race"}) /\ [][NextGrant]_vars

(***************************************************************************)
(* C26: grant creation is serialized per operator.  When consent            *)
(* verifications of one operator session run concurrently, each with a      *)
(* correct code, every successful call leaves the session with exactly one  *)
(* grant, the grant that call wrote: the subject of the record it verified  *)
(* with the expiry computed from its own clock reading.  The operator never *)
(* holds two grants, nor a grant that mixes the subject of one call with    *)
(* the expiry of the other.                                                 *)
(***************************************************************************)
C26_GrantSerialized ==
    [][resp'.op = "verify-patient-otp" /\ resp'.status = 200 =>
       \A c \in {resp'.c}, subject \in resp'.data :
          /\ Cardinality(resp'.data) = 1
          /\ "patient_access" \in DOMAIN session'[c]
          /\ session'[c]["patient_access"] =
                 [patient_id |-> subject,
                  expires_at |-> IsoFormat(now + PATIENT_ACCESS_SECONDS)]]_vars

\* one verification has just granted its subject while another, for a
\* different subject on the other channel and with its correct code, is in flight
C26_Witness ==
    /\ resp.op = "verify-patient-otp" /\ resp.status = 200
    /\ \E t \in DOMAIN threads :
          /\ threads[t].c = resp.c
          /\ threads[t].id # resp.id
          /\ heap[threads[t].record].patient_id \notin resp.data
          /\ heap[threads[t].record].otp = Strip(threads[t].otp)
          /\ threads[t].rec # session[resp.c]

(***************************************************************************)
(* SpecDeliver: OTP requests whose out-of-band delivery raises.  The sender *)
(* (send_otp_demo, send_otp_dev_log; an SMS or mail gateway in production)  *)
(* is called after the record is stored; whether it returns or raises is an *)
(* input of the request, recorded in the field delivery of resp.            *)
(***************************************************************************)
\* api_request_otp of the token server when send_otp_demo raises: nothing
\* catches the exception and Flask answers 500
ApiRequestOtpUndelivered(D, S) ==
    \E doctor_id \in D, otp \in OtpCodes, salt \in S :
        /\ IF USE_REDIS
           THEN r' = store_otp_redis(doctor_id, otp, salt, OTP_VALIDITY_SECONDS)
                /\ UNCHANGED _otp_store
           ELSE _otp_store' = store_otp_dict(doctor_id, otp, salt, OTP_VALIDITY_SECONDS)
                /\ UNCHANGED r
        /\ resp' = Response("request_otp", "-", doctor_id, otp, NoToken, 500,
                            "Internal Server Error", {}) @@ [delivery |-> "raised"]
        /\ UNCHANGED <<scenario, providers, now, USE_REDIS, _session_blacklist, issued, hcVars, threads>>
        /\ Track

\* api_request_otp of the healthcare app when send_otp_dev_log raises inside
\* request_otp_for: the except clause answers 500 with str(ex)
HcRequestOtpUndelivered(C, I) ==
    \E c \in C, identifier \in I \cap DOMAIN USERS.employee, otp \in OtpCodes :
        /\ request_otp_for(identifier, otp)
        /\ resp' = HcResponse("request-otp", c, identifier, otp, 500, "delivery failed", {})
                      @@ [delivery |-> "raised"]
        /\ UNCHANGED <<scenario, providers, now, apiVars, USERS, healthcare_data, patient_otp_store,
                       patient_login_otp_store, session, threads>>
        /\ Track

NextDeliver ==
    \/ scenario = "api" /\ ApiRequestOtp({"dr_rao"}, {"a3f1"})
    \/ scenario = "api" /\ ApiRequestOtpUndelivered({"dr_rao"}, {"a3f1"})
    \/ scenario = "api" /\ ApiVerifyOtp({"dr_rao"})
    \/ scenario = "employee_login" /\ HcRequestOtp({"c1"}, {"emp001"})
    \/ scenario = "employee_login" /\ HcRequestOtpUndelivered({"c1"}, {"emp001"})
    \/ scenario = "employee_login" /\ HcVerifyOtp({"c1"}, {"emp001"})
    \/ Tick(OtpStep)

SpecDeliver == InitIn({"api", "employee_login"}) /\ [][NextDeliver]_vars

\* the delivery step of the request served by the step raised
DeliveryRaised(rsp) == "delivery" \in DOMAIN rsp /\ rsp.delivery = "raised"

(***************************************************************************)
(* C27: delivery is fire-and-forget.  If the out-of-band delivery step      *)
(* raises during requestOtp, the OTP record written for the identifier      *)
(* stays stored and verifiable (fresh, unexpired, holding the generated     *)
(* secret), and the request is reported to the caller as successful.        *)
(***************************************************************************)
C27_FireAndForget ==
    [][DeliveryRaised(resp') =>
       \A op \in {VerifyOf(resp'.op)}, id \in {resp'.id}, otp \in {resp'.otp} :
          /\ FirstExact(op, id, otp)'
          /\ resp'.status = 200]_vars

(***************************************************************************)
(* Existence of the named identifier or subject, seen through the answers.  *)
(***************************************************************************)
\* the answer a caller sees
SameAnswer(status, error) == resp'.status = status /\ resp'.error = error
UnknownSubjects == {"PAT0404"}

(***************************************************************************)
(* C28: no existence leak.  The answer of request-otp,                      *)
(* request-patient-login-otp, request-patient-otp and get-patient to a call *)
(* that names an unknown identifier or subject is an answer the same call   *)
(* of the same caller, in the same state, gets when it names a known one:   *)
(* by the response a caller can not tell an unknown identifier from a known *)
(* one.                                                                     *)
(***************************************************************************)
C28_NoExistenceLeak ==
    [][\A c \in {resp'.c}, id \in {resp'.id}, s \in {resp'.status}, e \in {resp'.error} :
          /\ resp'.op = "request-otp" /\ id # "" /\ id \notin DOMAIN USERS.employee =>
                \E id2 \in DOMAIN USERS.employee, otp \in OtpCodes :
                   ENABLED (hc_api_request_otp(c, id2, otp) /\ SameAnswer(s, e))
          /\ resp'.op = "request-patient-login-otp" /\ id # ""
                /\ id \notin DOMAIN USERS.patient =>
                \E id2 \in DOMAIN USERS.patient, otp \in OtpCodes :
                   ENABLED (api_request_patient_login_otp(c, id2, otp) /\ SameAnswer(s, e))
          /\ resp'.op = "request-patient-otp" =>
                \A unknown \in UnknownSubjects \ Subjects, otp \in OtpCodes :
                   api_request_patient_otp(c, id, unknown, otp) =>
                      \E known \in Subjects :
                         ENABLED (api_request_patient_otp(c, id, known, otp)
                                     /\ SameAnswer(s, e))
          /\ resp'.op = "get-patient" /\ find_patient(id) = {} =>
                \E known \in Subjects :
                   ENABLED (hc_api_get_patient(c, known) /\ SameAnswer(s, e))]_vars

(***************************************************************************)
(* What the OTP stores hold.                                                *)
(***************************************************************************)
\* the OTP records of every store of the two programs
StoredOtpRecords ==
    {_otp_store[k] : k \in DOMAIN _otp_store}
      \cup {r[k].value : k \in {x \in DOMAIN r : x[1] = "otp"}}
      \cup {heap[otp_store[k]] : k \in DOMAIN otp_store}
      \cup {heap[patient_login_otp_store[k]] : k \in DOMAIN patient_login_otp_store}
      \cup {heap[patient_otp_store[k]] : k \in DOMAIN patient_otp_store}
\* the fields of a record that hold text
TextFields(rec) == DOMAIN rec \cap {"otp", "salt", "patient_id"}

(***************************************************************************)
(* C29: the raw secret is never stored.  In every reachable state every OTP *)
(* record of every OTP store holds a salt and hash(salt, secret), and no    *)
(* stored field equals a generated secret.                                  *)
(***************************************************************************)
C29_NoRawSecret ==
    \A rec \in StoredOtpRecords :
        /\ {"salt", "h"} \subseteq DOMAIN rec
        /\ \A f \in TextFields(rec) : rec[f] \notin OtpCodes

(***************************************************************************)
(* C30: validation order.  A protected endpoint of the token server checks  *)
(* the signature first, then the expiry, then the blacklist: a token with a *)
(* bad signature that is also expired or revoked is rejected as "invalid    *)
(* token", a validly signed token that is expired and also revoked is       *)
(* rejected as "token expired", and the blacklist is consulted (answers     *)
(* "session invalidated", drops a lapsed entry) only for tokens whose       *)
(* signature and expiry checks passed.                                      *)
(***************************************************************************)
BadSignature(t) == t.sig # Sign(t.payload, JWT_SECRET)
PastExpiry(t) == t.payload.exp <= now
BlacklistUntouched == _session_blacklist' = _session_blacklist /\ r' = r

NextRole ==
    \/ Login({"c1"}, {"emp001"})
    \/ Login({"c2"}, {"admin"})
    \/ Logout({"c1"})
    \/ ModifyEmployee(Clients)
    \/ DeleteEmployee(Clients)
    \/ ExportPatients({"c1"})

SpecRole == InitIn({"roles"}) /\ [][NextRole]_vars

AdminOps == {"modify-employee", "delete-employee"}
EmployeeOps == {"export-patients"}
\* the account of the session, as the accounts stand now
CurrentAccount(c) ==
    IF /\ "username" \in DOMAIN session[c]
       /\ session[c]["user_type"] \in DOMAIN USERS
       /\ session[c]["username"] \in DOMAIN USERS[session[c]["user_type"]]
    THEN {USERS[session[c]["user_type"]][session[c]["username"]]}
    ELSE {}

(***************************************************************************)
(* C31: role and account changes take effect immediately.  A request on an  *)
(* established employee session is authorized by the accounts as they stand *)
(* when the request is made: an administrator operation passes only if the  *)
(* account of the session is an administrator now, an employee operation    *)
(* only if the account still exists.                                        *)
(***************************************************************************)
C31_ImmediateEffect ==
    [][\A c \in {resp'.c} :
          /\ resp'.op \in AdminOps /\ resp'.status # 403 =>
                \E a \in CurrentAccount(c) : a.role = "Administrator"
          /\ resp'.op \in EmployeeOps /\ resp'.status # 403 =>
                CurrentAccount(c) # {}]_vars

(***************************************************************************)
(* The life of an OTP record.                                               *)
(***************************************************************************)
\* the identifiers an engine is asked about
IdentifiersOf(op) ==
    CASE op = "verify_otp" -> Doctors
      [] op = "verify-otp" -> {"emp001"}
      [] op = "verify-patient-login-otp" -> {"pat001"}
      [] op = "verify-patient-otp" -> Phones
\* the response is that of a successful request for the identifier
Requested(rsp, op, id) ==
    /\ rsp.op \in RequestOps /\ VerifyOf(rsp.op) = op
    /\ rsp.id = id /\ rsp.status = 200

(***************************************************************************)
(* C32: attempts are monotone and deletion is final.  While a record stays  *)
(* in its store without being reissued, its attempts counter never          *)
(* decreases, and a failed verification that leaves the record grows it by  *)
(* exactly one; an identifier without a record has one again only through   *)
(* a successful requestOtp for it, never through a verification, a cleanup  *)
(* pass or the passing of time.                                             *)
(***************************************************************************)
C32_MonotoneFinal ==
    [][\A op \in VerifyOps : \A id \in IdentifiersOf(op) :
          /\ HasRec(op, id) /\ HasRec(op, id)' /\ ~Requested(resp', op, id) =>
                /\ RecAttempts(op, id)' >= RecAttempts(op, id)
                /\ (/\ resp'.op = op /\ resp'.id = id /\ resp'.status # 200
                    /\ Verifies(op, resp'.c, id, resp'.otp))
                      => RecAttempts(op, id)' = RecAttempts(op, id) + 1
          /\ ~HasRec(op, id) /\ HasRec(op, id)' => Requested(resp', op, id)]_vars

(***************************************************************************)
(* SpecOperators: two operator sessions and one consent channel.  emp001    *)
(* works on session c1 and the administrator on c2; the administrator may   *)
(* also log in on c1 without a logout in between.                           *)
(***************************************************************************)
NextOperators ==
    \/ Login({"c1"}, {"emp001", "admin"})
    \/ Login({"c2"}, {"admin"})
    \/ Logout({"c1"})
    \/ RequestPatientOtp({"c1"}, {"PAT0001"})
    \/ VerifyPatientOtp(Clients)
    \/ HcGetPatient({"c1"})

SpecOperators == InitIn({"operators"}) /\ [][NextOperators]_vars

\* the session and its user requested the consent OTP now stored for the channel
RequestedBy(phone, c) ==
    <<"requested-by", phone, c, session[c]["username"]>> \in history

(***************************************************************************)
(* C33: consent OTPs are bound to the requesting operator.  A successful    *)
(* consent verification attaches a grant to a session only if that session  *)
(* and its user issued the request whose record is consumed; another        *)
(* employee session that submits the correct code obtains no grant.         *)
(***************************************************************************)
C33_BoundToOperator ==
    [][\A c \in {resp'.c}, phone \in {resp'.id} :
          VerifiedConsent(c) => RequestedBy(phone, c)]_vars

\* the user that obtained the grant the session holds
Grantees(c) == {f[3] : f \in {g \in history : g[1] = "grantee" /\ g[2] = c}}

(***************************************************************************)
(* C34: a grant does not survive a change of operator.  When the user of a  *)
(* session changes by a login without a logout in between,                  *)
(* the grant the previous user obtained authorizes no read for the new      *)
(* user: every read a grant authorizes is made by the user that obtained    *)
(* the grant.                                                               *)
(***************************************************************************)
C34_GrantDiesWithOperator ==
    [][\A c \in {resp'.c}, path \in {resp'.id} :
          GuardedRead(c, path) /\ resp'.status = 200 =>
              Grantees(c) = {session[c]["username"]}]_vars

\* the grant a session holds, if any
GrantOf(sess) ==
    IF "patient_access" \in DOMAIN sess THEN {sess["patient_access"]} ELSE {}

ResetAtCeiling(op, id) == <<"reset", op, id>> \in history

(***************************************************************************)
(* C36: the attempt counter is per issued record.  Every accepted request   *)
(* of the healthcare application stores a record with attempts = 0 whatever *)
(* the attempts of the record it overwrites, and a wrong candidate          *)
(* submitted right after an accepted request is answered "invalid otp",     *)
(* never "too many attempts", and leaves the record in place: a caller who  *)
(* alternates requests and wrong candidates is never locked out.            *)
(***************************************************************************)
C36_CounterPerRecord ==
    [][\A op \in {resp'.op}, c \in {resp'.c}, id \in {resp'.id}, cand \in {resp'.otp} :
          /\ op \in RequestOps \ {"request_otp"} /\ resp'.status = 200 =>
                HasRec(VerifyOf(op), id)' /\ RecAttempts(VerifyOf(op), id)' = 0
          /\ (/\ op \in HcVerifyOps /\ Verifies(op, c, id, cand)
              /\ Requested(resp, op, id)
              /\ ~ExactSecret(op, id, cand)) =>
                /\ Invalid(resp') /\ ~TooManyAttempts(resp')
                /\ HasRec(op, id)' /\ RecAttempts(op, id)' = 1]_vars

\* a wrong candidate was refused as invalid right after a request that
\* replaced a record which had used up its attempts
C36_Witness ==
    /\ resp.op \in HcVerifyOps /\ Invalid(resp)
    /\ ResetAtCeiling(resp.op, resp.id)
    /\ HasRec(resp.op, resp.id) /\ RecAttempts(resp.op, resp.id) = 1

\* the step completes the increment of the handler in thread t: it stores the
\* counter of the record the handler holds
StoresAttempts(t) ==
    /\ t \in DOMAIN threads
    /\ threads[t].op = "verify-otp" /\ threads[t].pc \in {"check", "loaded"}
    /\ t \notin DOMAIN threads' \/ threads'[t].pc = "pop"

(***************************************************************************)
(* C38: no lost attempt under concurrency.  Every verification that counts  *)
(* an attempt raises the counter of its record by one over the value the    *)
(* record holds at that moment, so k concurrent wrong candidates on a       *)
(* record with attempts = a leave it at a + k.                              *)
(***************************************************************************)
C38_NoLostAttempt ==
    [][\A t \in Threads :
          StoresAttempts(t) /\ threads[t].record \in DOMAIN heap' =>
              heap'[threads[t].record].attempts = heap[threads[t].record].attempts + 1]_vars

(***************************************************************************)
(* SpecOne: the three OTP flows of the healthcare application driven in     *)
(* lockstep.  Every request, verification and clock step is applied to the  *)
(* employee login flow, then with the same secret or candidate to the       *)
(* patient login flow, then to the consent flow of an operator logged in on *)
(* a session of its own; the ceiling is 5 and the TTL 300 s in all three.   *)
(***************************************************************************)
NextOne ==
    \/ ~is_employee_session("c2") /\ Login({"c2"}, {"emp001"})
    \/ /\ is_employee_session("c2")
       /\ resp.op \in {"idle", "login", "request-patient-otp", "verify-patient-otp"}
       /\ HcRequestOtp({"c1"}, {"emp001"})
    \/ /\ resp.op = "request-otp"
       /\ RequestPatientLoginOtp({"c1"}, {"pat001"})
       /\ resp'.otp = resp.otp /\ (resp'.id = "") = (resp.id = "")
    \/ /\ resp.op = "request-patient-login-otp"
       /\ RequestPatientOtp({"c2"}, {"PAT0001"})
       /\ resp'.otp = resp.otp /\ (resp'.id = "") = (resp.id = "")
    \/ /\ is_employee_session("c2")
       /\ resp.op \in {"idle", "login", "request-patient-otp", "verify-patient-otp"}
       /\ HcVerifyOtp({"c1"}, {"emp001"})
    \/ /\ resp.op = "verify-otp"
       /\ VerifyPatientLoginOtp({"c1"}, {"pat001"})
       /\ resp'.otp = resp.otp /\ (resp'.id = "") = (resp.id = "")
    \/ /\ resp.op = "verify-patient-login-otp"
       /\ VerifyPatientOtp({"c2"})
       /\ resp'.otp = resp.otp /\ (resp'.id = "") = (resp.id = "")
    \/ /\ is_employee_session("c2")
       /\ resp.op \in {"idle", "login", "request-patient-otp", "verify-patient-otp"}
       /\ Tick(OTP_TTL_SECONDS)

SpecOne == InitIn({"one_engine"}) /\ [][NextOne]_vars

\* the outcome class of a response
OutcomeOf(rsp) ==
    CASE Succeeds(rsp) -> "success"
      [] NotFound(rsp) -> "not found"
      [] Expired(rsp) -> "expired"
      [] Invalid(rsp) -> "invalid"
      [] TooManyAttempts(rsp) -> "too many attempts"
      [] OTHER -> "rejected"
\* the step applies to the next flow the call the last step applied to a flow
NextFlow ==
    \/ resp.op = "request-otp" /\ resp'.op = "request-patient-login-otp"
    \/ resp.op = "request-patient-login-otp" /\ resp'.op = "request-patient-otp"
    \/ resp.op = "verify-otp" /\ resp'.op = "verify-patient-login-otp"
    \/ resp.op = "verify-patient-login-otp" /\ resp'.op = "verify-patient-otp"

(***************************************************************************)
(* C37: the OTP flows are one engine.  For the same sequence of requests,   *)
(* verifications and clock steps on one identifier, the employee login, the *)
(* patient login and the consent flow return the same outcome at every      *)
(* step.                                                                    *)
(***************************************************************************)
C37_OneEngine ==
    [][NextFlow => OutcomeOf(resp') = OutcomeOf(resp)]_vars

(***************************************************************************)
(* The provider-directory agents.  QualityAssuranceAgent.assess_data_quality*)
(* scores a provider record against its validation and enrichment results; *)
(* DirectoryManagementAgent.create_manual_review_queue builds the review    *)
(* queue from the assessed providers.  The scores are floats in [0, 1];     *)
(* they are kept exact in units of 1/13200, in which elevenths, tenths, the *)
(* weights and the mean of up to four tenths are all whole numbers.         *)
(***************************************************************************)
One == 13200
MaxProviders == 2        \* at most this many providers are assessed

\* config.py
MIN_CONFIDENCE_SCORE == (6 * One) \div 10
HIGH_PRIORITY_THRESHOLD == (4 * One) \div 10

\* _calculate_overall_score: the weighted sum, 0.2 off per critical issue,
\* clamped to [0, 1]
_calculate_overall_score(assessment) ==
    LET score == (3 * assessment.data_completeness
                  + 4 * assessment.data_accuracy
                  + 3 * assessment.cross_validation_score) \div 10
        critical_issues ==
            Len(SelectSeq(assessment.quality_issues,
                          LAMBDA i : i.severity = "critical"))
        penalized == score - critical_issues * ((2 * One) \div 10)
        capped == IF penalized > One THEN One ELSE penalized
    IN  IF capped < 0 THEN 0 ELSE capped

_determine_priority(overall_score) ==
    IF overall_score >= (8 * One) \div 10 THEN "low"
    ELSE IF overall_score >= (5 * One) \div 10 THEN "medium"
    ELSE "high"

_requires_manual_review(assessment) ==
    IF assessment.overall_score < HIGH_PRIORITY_THRESHOLD THEN TRUE
    ELSE IF SelectSeq(assessment.quality_issues,
                      LAMBDA i : i.severity = "critical") # <<>> THEN TRUE
    ELSE IF SelectSeq(assessment.discrepancies,
                      LAMBDA d : d.severity = "high") # <<>> THEN TRUE
    ELSE FALSE

\* assess_data_quality with _assess_completeness, _cross_validate_data,
\* _identify_discrepancies, _check_missing_fields, _detect_quality_issues and
\* _generate_recommendations.  validation_results.similarity is the value
\* compare_strings returns for the provider's name and the registry's name,
\* and -1 when the findings hold no registry entry.
assess_data_quality(provider, validation_results, enrichment_results) ==
    LET required_fields ==
            {"npi", "name", "first_name", "last_name", "specialty", "phone",
             "email", "address_line1", "city", "state", "zip_code"}
        filled == Cardinality({field \in required_fields : provider[field] # ""})
        total == (IF validation_results.npi_validated THEN One ELSE 0)
                 + (IF validation_results.contact_validated THEN (8 * One) \div 10 ELSE 0)
                 + (IF validation_results.address_validated THEN (7 * One) \div 10 ELSE 0)
                 + (IF enrichment_results.confidence_score > 0
                    THEN enrichment_results.confidence_score ELSE 0)
        scores == (IF validation_results.npi_validated THEN 1 ELSE 0)
                  + (IF validation_results.contact_validated THEN 1 ELSE 0)
                  + (IF validation_results.address_validated THEN 1 ELSE 0)
                  + (IF enrichment_results.confidence_score > 0 THEN 1 ELSE 0)
        discrepancies ==
            (IF /\ validation_results.similarity # -1
                /\ provider["name"] # ""
                /\ validation_results.similarity < (8 * One) \div 10
             THEN <<[field |-> "name", severity |-> "high"]>> ELSE <<>>)
            \o (IF /\ validation_results.phone # ""
                   /\ provider["phone"] # validation_results.phone
                THEN <<[field |-> "phone", severity |-> "medium"]>> ELSE <<>>)
        missing_fields ==
            SelectSeq(<<"npi", "name", "phone", "specialty", "address_line1",
                        "city", "state">>,
                      LAMBDA field : provider[field] = "")
        quality_issues ==
            (IF validation_results.confidence_score < MIN_CONFIDENCE_SCORE
             THEN <<[type |-> "low_confidence", severity |-> "high"]>> ELSE <<>>)
            \o (IF ~validation_results.npi_validated
                THEN <<[type |-> "npi_validation_failed", severity |-> "critical"]>>
                ELSE <<>>)
            \o (IF provider["phone"] \in {"000-000-0000", "111-111-1111"}
                THEN <<[type |-> "suspicious_phone", severity |-> "high"]>>
                ELSE <<>>)
        measured ==
            [data_completeness |-> (filled * One) \div 11,
             data_accuracy |-> validation_results.confidence_score,
             cross_validation_score |->
                 IF scores # 0 THEN total \div scores ELSE 0,
             discrepancies |-> discrepancies,
             missing_fields |-> missing_fields,
             quality_issues |-> quality_issues]
        scored == measured @@ [overall_score |-> _calculate_overall_score(measured)]
        ranked == scored @@ [priority_level |-> _determine_priority(scored.overall_score)]
        reviewed == ranked @@ [requires_manual_review |-> _requires_manual_review(ranked)]
        recommendations ==
            (IF reviewed.priority_level = "high" THEN <<"URGENT">> ELSE <<>>)
            \o (IF missing_fields # <<>> THEN <<"Complete missing fields">> ELSE <<>>)
            \o [n \in 1..Len(discrepancies) |-> "Verify"]
            \o [n \in 1..Len(SelectSeq(quality_issues,
                                        LAMBDA i : i.type # "suspicious_phone")) |->
                   IF SelectSeq(quality_issues,
                                LAMBDA i : i.type # "suspicious_phone")[n].type
                      = "low_confidence"
                   THEN "Re-validate" ELSE "Verify NPI"]
    IN  reviewed @@ [recommendations |-> recommendations]

\* create_manual_review_queue: the providers that require a manual review,
\* sorted (stably) by priority and then by overall score
create_manual_review_queue(list) ==
    LET priority_order(item) ==
            CASE item.priority = "high" -> 0
              [] item.priority = "medium" -> 1
              [] OTHER -> 2
        before(x, y) ==
            \/ priority_order(x) < priority_order(y)
            \/ priority_order(x) = priority_order(y)
               /\ x.overall_score < y.overall_score
        review_item(provider) ==
            [provider_id |-> provider.id,
             priority |-> provider.qa_assessment.priority_level,
             overall_score |-> provider.qa_assessment.overall_score,
             recommendations |-> provider.qa_assessment.recommendations]
        review_queue ==
            [n \in 1..Len(SelectSeq(list,
                    LAMBDA provider : provider.qa_assessment.requires_manual_review)) |->
                review_item(SelectSeq(list,
                    LAMBDA provider : provider.qa_assessment.requires_manual_review)[n])]
        \* the place of the n-th item after the sort
        place(n) ==
            Cardinality({m \in 1..Len(review_queue) :
                \/ before(review_queue[m], review_queue[n])
                \/ m <= n /\ ~before(review_queue[n], review_queue[m])})
    IN  [k \in 1..Len(review_queue) |->
            review_queue[CHOOSE n \in 1..Len(review_queue) : place(n) = k]]

\* the pipeline assesses the next provider and stores the assessment on it
AssessDataQuality ==
    \E name \in {"", "Dr. A"}, phone \in {"", "000-000-0000"}, rest \in {"", "x"},
       confidence \in {3, 6, 10}, npi_validated \in BOOLEAN,
       contact_validated \in BOOLEAN, similarity \in {-1, 5, 10},
       enrichment \in {0, 5} :
        LET provider ==
                [field \in {"npi", "name", "first_name", "last_name", "specialty",
                            "phone", "email", "address_line1", "city", "state",
                            "zip_code"} |->
                    CASE field = "name" -> name
                      [] field = "phone" -> phone
                      [] OTHER -> rest]
            validation_results ==
                [confidence_score |-> (confidence * One) \div 10,
                 npi_validated |-> npi_validated,
                 contact_validated |-> contact_validated,
                 address_validated |-> FALSE,
                 similarity |-> IF similarity = -1 THEN -1
                                ELSE (similarity * One) \div 10,
                 phone |-> IF contact_validated THEN "555-0100" ELSE ""]
            enrichment_results == [confidence_score |-> (enrichment * One) \div 10]
            qa_assessment ==
                assess_data_quality(provider, validation_results, enrichment_results)
        IN  /\ scenario = "qa"
            /\ Len(providers) < MaxProviders
            /\ providers' = Append(providers,
                   [id |-> Len(providers) + 1, qa_assessment |-> qa_assessment])
            /\ resp' = HcResponse("assess", "-", "", "", 200, "", {qa_assessment})
            /\ UNCHANGED <<scenario, now, apiVars, hcVars, threads>>
            /\ Track

\* the directory agent builds the review queue of the assessed providers
CreateManualReviewQueue ==
    /\ scenario = "qa"
    /\ providers # <<>>
    /\ resp' = HcResponse("review-queue", "-", "", "", 200, "",
                          {create_manual_review_queue(providers)})
    /\ UNCHANGED <<scenario, now, apiVars, hcVars, threads, providers>>
    /\ Track

NextQa ==
    \/ AssessDataQuality
    \/ CreateManualReviewQueue

SpecQa == InitIn({"qa"}) /\ [][NextQa]_vars

\* the providers in the queue the last step built
Queued == UNION {{q[n].provider_id : n \in 1..Len(q)} : q \in resp.data}

(***************************************************************************)
(* C39: priority and manual review agree.  Every assessment whose priority  *)
(* level is "high" (its recommendations start with the urgent line)         *)
(* requires a manual review, and every high-priority provider is in the     *)
(* queue create_manual_review_queue builds.                                 *)
(***************************************************************************)
C39_HighPriorityReviewed ==
    /\ \A n \in 1..Len(providers) :
           providers[n].qa_assessment.priority_level = "high"
               => providers[n].qa_assessment.requires_manual_review
    /\ resp.op = "review-queue"
           => \A n \in 1..Len(providers) :
                  providers[n].qa_assessment.priority_level = "high"
                      => providers[n].id \in Queued

=============================================================================
